---- MODULE Spec2Model ----
(***************************************************************************)
(* Model of the yocto deployment tooling (SeismicSystems/deploy):          *)
(*   - the genesis deployment pipeline (genesis_deploy.deploy_genesis_vm,  *)
(*     deployment/deploy.py deploy_image, Deployer.deploy),                *)
(*   - the metadata store (utils/metadata.py, DeployOutput),               *)
(*   - the GCP implementation of the CloudApi contract (cloud/gcp/api.py). *)
(* The Azure implementation is not part of the sources; its create calls   *)
(* are modelled from the design document.                                  *)
(***************************************************************************)
EXTENDS Integers, Sequences, FiniteSets, TLC

\* ------------------------------------------------------------------------
\* Bounds of the model
\* ------------------------------------------------------------------------
\* number of cloud-call failures the environment may inject in one behaviour
MaxFaults == 1
\* number of times the operator runs the pipeline with the same inputs
MaxAttempts == 2

\* ------------------------------------------------------------------------
\* Program constants
\* ------------------------------------------------------------------------
DATA_DISK_SIZE_GB == 1024
DATA_DISK_LUN == 10

Clouds == {"azure", "gcp"}

\* the orchestrator processes; process 1 runs the genesis pipeline
Procs == {1, 2}
Orch == 1

\* ------------------------------------------------------------------------
\* Python dicts: finite maps with a variable key set
\* ------------------------------------------------------------------------
EmptyMap == [k \in {} |-> k]

Has(m, k) == k \in DOMAIN m

Put(m, k, v) == [x \in (DOMAIN m) \cup {k} |-> IF x = k THEN v ELSE m[x]]

\* dict.pop(k)
Remove(m, k) == [x \in (DOMAIN m) \ {k} |-> m[x]]

\* dict.get(k, default)
Get(m, k, default) == IF k \in DOMAIN m THEN m[k] ELSE default

\* ------------------------------------------------------------------------
\* Naming
\* ------------------------------------------------------------------------
\* the artifact (image file name) every modelled deployment uses
\* artifact file names: <<prefix, 14-digit timestamp, extension>>
Artifact == <<"seismic-dev-azure", 2, ".vhd">>
OtherArtifact == <<"seismic-dev-azure", 1, ".vhd">>

\* VM name of genesis node n: f"{prefix}-{node}"
VmName(n) == IF n = 0 THEN "node-None" ELSE "node-" \o ToString(n)

\* VmConfigs.get_disk_name: f"{vm_name}_{artifact}"
get_disk_name(vm_name, artifact) == <<vm_name, artifact>>

\* deploy_image: data_disk_name = f"{configs.vm.name}-persistent"
data_disk_name(vm_name) == <<vm_name, <<"persistent", 0, "">>>>

\* no disk name (None)
NoDisk == <<"", <<"", 0, "">>>>

\* GenesisIPManager: ip_name = f"genesis-node-{node_number}"
ip_name(n) == <<"genesis-node", n>>

\* ------------------------------------------------------------------------
\* The metadata file
\* ------------------------------------------------------------------------
\* content of <home>/deploy/deploy_metadata.json:
\*   missing   - no such file
\*   malformed - a file that is not JSON
\*   empty     - a file truncated to length 0 (open(..., "w+"))
\*   partial   - a prefix of a document, written but not completed
\*   doc       - a complete JSON document
FileOf(kind, doc) == [kind |-> kind, doc |-> doc]

MissingFile == FileOf("missing", EmptyMap)
MalformedFile == FileOf("malformed", EmptyMap)
EmptyFile == FileOf("empty", EmptyMap)

\* a load_metadata that falls back to an empty document when the file cannot
\* be read
load_metadata_default(f) ==
    IF f.kind = "doc" THEN [ok |-> TRUE, error |-> "none", doc |-> f.doc]
    ELSE [ok |-> TRUE, error |-> "none", doc |-> EmptyMap]

\* load_metadata: open() raises FileNotFoundError on a missing file and
\* json.load raises JSONDecodeError on anything that is not a document
load_metadata(f) ==
    IF f.kind = "doc" THEN [ok |-> TRUE, error |-> "none", doc |-> f.doc]
    ELSE IF f.kind = "missing"
         THEN [ok |-> FALSE, error |-> "FileNotFoundError", doc |-> EmptyMap]
         ELSE [ok |-> FALSE, error |-> "JSONDecodeError", doc |-> EmptyMap]

\* VmConfigs.to_dict / the record built by update_deploy_metadata
vm_metadata(c, ip, ddisk) ==
    LET base == [artifact |-> Artifact,
                 public_ip |-> ip,
                 vm |-> [cloud |-> c.cloud, name |-> c.name]]
    IN  IF ddisk # NoDisk THEN Put(base, "data_disk", ddisk) ELSE base

\* body of DeployOutput.update_deploy_metadata between load and write,
\* with a destructive full-bucket overwrite
upsert_vm_fresh_bucket(metadata, c, ip, ddisk) ==
    LET m1 == IF ~Has(metadata, "resources")
              THEN Put(metadata, "resources",
                       [azure |-> EmptyMap, gcp |-> EmptyMap])
              ELSE metadata
        r2 == Put(m1["resources"], c.cloud,
                  Put(EmptyMap, c.name, vm_metadata(c, ip, ddisk)))
    IN  Put(m1, "resources", r2)

\* body of DeployOutput.update_deploy_metadata between load and write
upsert_vm(metadata, c, ip, ddisk) ==
    LET m1 == IF ~Has(metadata, "resources")
              THEN Put(metadata, "resources",
                       [azure |-> EmptyMap, gcp |-> EmptyMap])
              ELSE metadata
        r1 == IF ~Has(m1["resources"], c.cloud)
              THEN Put(m1["resources"], c.cloud, EmptyMap)
              ELSE m1["resources"]
        r2 == Put(r1, c.cloud,
                  Put(r1[c.cloud], c.name, vm_metadata(c, ip, ddisk)))
    IN  Put(m1, "resources", r2)

\* ------------------------------------------------------------------------
\* The standard firewall rule set (create_standard_nsg_rules)
\* ------------------------------------------------------------------------
CONSENSUS_PORT == 18551

Rule(n, prio, port, proto, src) ==
    [name |-> n, priority |-> prio, port |-> port, protocol |-> proto,
     source |-> src]

\* a rule list in which TCP7878 takes the priority of the consensus rule
StandardRules_shared_priority ==
    << Rule("AllowSSH", 100, 22, "tcp", "source_ip"),
       Rule("AllowAnyHTTPInbound", 101, 80, "tcp", "*"),
       Rule("AllowAnyHTTPSInbound", 102, 443, "tcp", "*"),
       Rule("TCP7878", 114, 7878, "tcp", "*"),
       Rule("TCP7936", 116, 7936, "tcp", "*"),
       Rule("TCP8545", 110, 8545, "tcp", "*"),
       Rule("TCP8551", 111, 8551, "tcp", "*"),
       Rule("TCP8645", 112, 8645, "tcp", "*"),
       Rule("TCP8745", 113, 8745, "tcp", "*"),
       Rule("ANY18551", 114, 18551, "all", "*") >>

\* rules = [...] of create_standard_nsg_rules, in the order of the list
StandardRules ==
    << Rule("AllowSSH", 100, 22, "tcp", "source_ip"),
       Rule("AllowAnyHTTPInbound", 101, 80, "tcp", "*"),
       Rule("AllowAnyHTTPSInbound", 102, 443, "tcp", "*"),
       Rule("TCP7878", 115, 7878, "tcp", "*"),
       Rule("TCP7936", 116, 7936, "tcp", "*"),
       Rule("TCP8545", 110, 8545, "tcp", "*"),
       Rule("TCP8551", 111, 8551, "tcp", "*"),
       Rule("TCP8645", 112, 8645, "tcp", "*"),
       Rule("TCP8745", 113, 8745, "tcp", "*"),
       Rule("ANY18551", 114, CONSENSUS_PORT, "all", "*") >>

\* ------------------------------------------------------------------------
\* State
\* ------------------------------------------------------------------------
VARIABLES
    pc,           \* [Procs -> position of the process in its code]
    cfg,          \* [Procs -> the DeploymentConfig the process was started with]
    mem,          \* [Procs -> the local variable `metadata` of the process]
    loaded,       \* [Procs -> the document load_metadata returned to it]
    out,          \* [Procs -> (public_ip, data_disk_name) held in DeployOutput]
    err,          \* [Procs -> the exception propagating out of the process]
    calls,        \* steps the orchestrator has invoked in this run, in order
    attempt,      \* number of the current run of the pipeline
    wait,         \* the wait_for_extended_operation call in progress
    faults,       \* failures injected into cloud calls so far
    faulted,      \* a failure was injected in the current run
    last_fault,   \* the error the failing call raised (step and error)
    prev_fail,    \* the step at which the previous run failed ("none" if none)
    prev_ip,      \* the address get_or_create_node_ip returned in the previous run
    created,      \* cloud resources created by the current run
    disk_existed, \* what disk_exists answered in the current run
    rule_idx,     \* loop index of create_standard_nsg_rules
    ip_address,   \* local variables ip_address, ip_name of deploy_genesis_vm
    returned,     \* [Procs -> what get_or_create_node_ip returned to the process]
    groups,       \* existing resource groups / projects
    ips,          \* static IP resources: name -> address
    next_addr,    \* next address the provider hands out
    dns,          \* A-record sets: record -> set of addresses
    images,       \* GCP images
    disks,        \* disks: name -> size in GiB (0 for a boot disk)
    rules,        \* firewall / NSG rules: <<vm, rule name>> -> rule
    nsgs,         \* network security groups (Azure)
    vms,          \* VMs: name -> [ip, data_disk, lun]
    file,         \* content of deploy_metadata.json
    file0,        \* content of deploy_metadata.json when the run started
    writes,       \* [Procs -> completed write_metadata calls of its run]
    local_files,  \* files in the artifacts directory
    tmp_files,    \* temporary files of the deployment that exist
    op            \* the last metadata-store operation and its outcome

procVars == <<pc, cfg, mem, loaded, out, err>>
runVars == <<calls, attempt, wait, faults, faulted, last_fault, prev_fail, prev_ip, created,
             disk_existed, rule_idx, ip_address, returned>>
cloudVars == <<groups, ips, next_addr, dns, images, disks, rules, nsgs, vms>>
fileVars == <<file, file0, writes, local_files, tmp_files, op>>
vars == <<procVars, runVars, cloudVars, fileVars>>

NoError == [at |-> "none", error |-> "none"]
NoOutput == [public_ip |-> 0, data_disk_name |-> NoDisk]
NoOp == [name |-> "none", arg |-> <<"none", "none">>, result |-> "none",
         error |-> "none", value |-> EmptyMap]

\* errors wait_for_extended_operation raises for a failed cloud operation
CloudErrors == {"TimeoutError", "RuntimeError"}

\* cloud resources, as recorded in `created`
Exists(r) ==
    CASE r[1] = "group" -> r[2] \in groups
      [] r[1] = "ip" -> Has(ips, r[2])
      [] r[1] = "image" -> r[2] \in images
      [] r[1] = "disk" -> Has(disks, r[2])
      [] r[1] = "rule" -> Has(rules, r[2])
      [] r[1] = "nsg" -> r[2] \in nsgs
      [] r[1] = "vm" -> Has(vms, r[2])
      [] OTHER -> FALSE

\* ------------------------------------------------------------------------
\* Initial states
\* ------------------------------------------------------------------------
OldEntry(cloud, n) ==
    [artifact |-> OtherArtifact, public_ip |-> 9,
     vm |-> [cloud |-> cloud, name |-> VmName(n)]]

\* a document recording earlier deployments on both providers and an artifact
FullDoc ==
    [resources |->
        [azure |-> (VmName(1) :> OldEntry("azure", 1)
                    @@ VmName(2) :> OldEntry("azure", 2)),
         gcp |-> (VmName(1) :> OldEntry("gcp", 1)
                  @@ VmName(2) :> OldEntry("gcp", 2))],
     artifacts |-> (OtherArtifact :> "measurements")]

InitialDocs ==
    { EmptyMap,
      [artifacts |-> (OtherArtifact :> "measurements")],
      [resources |-> EmptyMap],
      [resources |-> [azure |-> EmptyMap, gcp |-> EmptyMap]],
      [resources |-> [azure |-> (VmName(2) :> OldEntry("azure", 2))],
       artifacts |-> (OtherArtifact :> "measurements")],
      FullDoc }

InitialFiles ==
    {MissingFile, MalformedFile} \cup {FileOf("doc", d) : d \in InitialDocs}

\* DeploymentConfig of genesis node n (node 0: no --node given)
Config(cloud, n, ip_only, artifact) ==
    [cloud |-> cloud, node |-> n, name |-> VmName(n),
     ip_only |-> ip_only, artifact |-> artifact]

Configs ==
    { Config(c, n, io, a) :
        c \in Clouds, n \in {0, 1}, io \in BOOLEAN, a \in BOOLEAN }

InitCloud ==
    /\ groups \in {{}, {"rg"}}
    /\ ips \in {EmptyMap, (ip_name(1) :> 1)}
    /\ next_addr = 2
    /\ dns = [r \in {"node", "metrics"} |-> {}]
    /\ images = {}
    /\ disks = EmptyMap
    /\ rules = EmptyMap
    /\ nsgs = {}
    /\ vms = EmptyMap

\* no wait_for_extended_operation call is in progress
NoWait ==
    [pc |-> "idle", error |-> "none", timeout |-> 0, start_time |-> 0,
     now |-> 0, completes |-> FALSE, done_at |-> 0, failed |-> FALSE,
     done |-> FALSE, slept_at |-> -1]

\* get_or_create_node_ip has not returned
NoReturn == [ip_address |-> 0, ip_name |-> <<"none", 0>>]

InitRun ==
    /\ calls = << >>
    /\ attempt = 1
    /\ wait = NoWait
    /\ faults = 0
    /\ faulted = FALSE
    /\ last_fault = NoError
    /\ prev_fail = "none"
    /\ prev_ip = 0
    /\ created = {}
    /\ disk_existed = FALSE
    /\ rule_idx = 1
    /\ ip_address = 0
    /\ returned = [p \in Procs |-> NoReturn]

\* one orchestrator about to run deploy_genesis_vm
Init ==
    /\ \E c \in Configs : cfg = [p \in Procs |-> c]
    /\ pc = [p \in Procs |-> IF p = Orch THEN "start" ELSE "idle"]
    /\ mem = [p \in Procs |-> EmptyMap]
    /\ out = [p \in Procs |-> NoOutput]
    /\ err = [p \in Procs |-> NoError]
    /\ InitRun
    /\ InitCloud
    /\ loaded = [p \in Procs |-> EmptyMap]
    /\ file \in InitialFiles
    /\ file0 = file
    /\ writes = [p \in Procs |-> 0]
    /\ tmp_files = {}
    /\ local_files \in {{Artifact, OtherArtifact}, {OtherArtifact}}
    /\ op = NoOp

\* ------------------------------------------------------------------------
\* Control helpers
\* ------------------------------------------------------------------------
At(step) == pc[Orch] = step

Goto(next) == pc' = [pc EXCEPT ![Orch] = next]

Log(step) == calls' = Append(calls, step)

\* an exception leaves the pipeline wrapped in another error
Raises_wrapped(p, step, e) ==
    /\ pc' = [pc EXCEPT ![p] = "raised"]
    /\ err' = [err EXCEPT ![p] = [at |-> step, error |-> "DeploymentError"]]

\* an exception raised at `step` leaves the process: no handler catches it
Raises(p, step, e) ==
    /\ pc' = [pc EXCEPT ![p] = "raised"]
    /\ err' = [err EXCEPT ![p] = [at |-> step, error |-> e]]

\* the cloud call of `step` raises e
CallRaises(step, e) ==
    /\ Raises(Orch, step, e)
    /\ last_fault' = [at |-> step, error |-> e]
    /\ Log(step)

\* the environment makes the cloud call of `step` fail, without effect
CallFails(step) ==
    /\ faults < MaxFaults
    /\ \E e \in CloudErrors : CallRaises(step, e)
    /\ faults' = faults + 1
    /\ faulted' = TRUE
    /\ UNCHANGED <<cfg, mem, loaded, out, attempt, wait, prev_fail, prev_ip, created, disk_existed,
                   rule_idx, ip_address, returned, cloudVars, fileVars>>

\* the call of `step` returns and the pipeline goes on with `next`
Returns(step, next) ==
    /\ Goto(next)
    /\ Log(step)
    /\ UNCHANGED <<err, faults, faulted, last_fault>>

U_local == <<cfg, mem, loaded, out, attempt, wait, prev_fail, prev_ip, disk_existed, rule_idx>>
U_nofault == <<faults, faulted, last_fault>>

Cloud == cfg[Orch].cloud
Vm == cfg[Orch].name
Group == "rg"

\* ------------------------------------------------------------------------
\* Provider calls
\* ------------------------------------------------------------------------
\* GCP <client>.insert(...) followed by wait_for_extended_operation: the
\* provider refuses to insert a resource whose name is taken
insert(exists) == IF exists THEN "AlreadyExists" ELSE "ok"

\* an AzureApi create call (the implementation is not part of the sources):
\* by the design document each create step checks for the resource first
azure_create(exists) == "ok"

\* AzureApi.ensure_created_resource_group (not part of the sources): no-op
\* when the group exists, creates it otherwise
azure_ensure_created_resource_group(gs, name) == gs \cup {name}

\* get_cloud_api(configs.vm.cloud): the create call of the provider, on a
\* resource that exists or not
create_result(cloud, exists) ==
    IF cloud = "gcp" THEN insert(exists) ELSE azure_create(exists)

\* ------------------------------------------------------------------------
\* deploy_genesis_vm
\* ------------------------------------------------------------------------
\* a deploy_genesis_vm that goes to the resource group without checking the
\* dependencies
after_validate_args_unchecked == "ensure_created_resource_group"

\* the first cloud call of deploy_genesis_vm: cloud_api.check_dependencies()
after_validate_args == "check_dependencies"

\* if not args.artifact and not args.ip_only: raise ValueError
validate_args ==
    /\ At("start")
    /\ \/ /\ ~cfg[Orch].artifact /\ ~cfg[Orch].ip_only
          /\ Raises(Orch, "validate_args", "ValueError")
       \/ /\ cfg[Orch].artifact \/ cfg[Orch].ip_only
          /\ Goto(after_validate_args)
          /\ UNCHANGED err
    /\ UNCHANGED <<calls, U_nofault, U_local, ip_address, returned, created, cloudVars,
                   fileVars>>

\* GcpApi.check_dependencies is a no-op; the Azure one fails when the
\* provider tooling is unavailable
check_dependencies ==
    /\ At("check_dependencies")
    /\ \/ /\ Returns("check_dependencies", "ensure_created_resource_group")
          /\ UNCHANGED <<U_local, ip_address, returned, created, cloudVars, fileVars>>
       \/ /\ Cloud = "azure"
          /\ CallFails("check_dependencies")

\* GcpApi.ensure_created_resource_group only warns when the project is
\* missing; the Azure one creates the group when it is missing
ensure_group(step) ==
    /\ groups' = IF Cloud = "azure"
                 THEN azure_ensure_created_resource_group(groups, Group)
                 ELSE groups
    /\ created' = IF Cloud = "azure" /\ Group \notin groups
                  THEN created \cup {<<"group", Group>>} ELSE created
    /\ Log(step)
    /\ UNCHANGED <<ips, next_addr, dns, images, disks, rules, nsgs, vms>>

\* cloud_api.ensure_created_resource_group(...), then
\* if node is None: raise ValueError
ensure_created_resource_group ==
    /\ At("ensure_created_resource_group")
    /\ \/ /\ ensure_group("ensure_created_resource_group")
          /\ IF cfg[Orch].node = 0
             THEN Raises(Orch, "check_node", "ValueError")
             ELSE Goto("get_or_create_node_ip") /\ UNCHANGED err
          /\ UNCHANGED <<U_nofault, U_local, ip_address, returned, fileVars>>
       \/ /\ Cloud = "azure"
          /\ CallFails("ensure_created_resource_group")

\* GenesisIPManager.get_or_create_node_ip: ensure_genesis_resource_group
get_or_create_node_ip ==
    /\ At("get_or_create_node_ip")
    /\ \/ /\ ensure_group("get_or_create_node_ip")
          /\ Goto("get_existing_public_ip")
          /\ UNCHANGED <<err, U_nofault, U_local, ip_address, returned, fileVars>>
       \/ /\ Cloud = "azure"
          /\ CallFails("get_or_create_node_ip")

\* a get_or_create_node_ip that creates the address without asking
after_lookup_no_confirm(found) ==
    IF found THEN "update_dns_metrics" ELSE "create_public_ip"

\* if existing_ip: return (existing_ip, ip_name); otherwise confirm(...)
after_lookup(found) ==
    IF found THEN "update_dns_metrics" ELSE "confirm"

\* a lookup that never finds the address resource
existing_public_ip_none(addresses, name) == 0

\* get_existing_public_ip(name, resource_group): the address of the resource
\* of that name, None (0) when there is none
existing_public_ip(addresses, name) == Get(addresses, name, 0)

\* existing_ip = cloud_api.get_existing_public_ip(ip_name, ip_rg);
\* the GCP call answers None for every exception
get_existing_public_ip ==
    /\ At("get_existing_public_ip")
    /\ LET name == ip_name(cfg[Orch].node) IN
       \/ /\ existing_public_ip(ips, name) # 0
          /\ ip_address' = existing_public_ip(ips, name)
          /\ UNCHANGED returned
          /\ Returns("get_existing_public_ip", after_lookup(TRUE))
          /\ UNCHANGED <<U_local, created, cloudVars, fileVars>>
       \/ /\ existing_public_ip(ips, name) = 0
          /\ Returns("get_existing_public_ip", after_lookup(FALSE))
          /\ UNCHANGED <<U_local, ip_address, returned, created, cloudVars, fileVars>>
       \/ /\ Cloud = "gcp" /\ faults < MaxFaults
          /\ faults' = faults + 1
          /\ faulted' = TRUE
          /\ Goto(after_lookup(FALSE))
          /\ Log("get_existing_public_ip")
          /\ UNCHANGED <<err, last_fault, U_local, ip_address, returned, created,
                         cloudVars, fileVars>>
       \/ /\ Cloud = "azure"
          /\ CallFails("get_existing_public_ip")

\* confirm(...): any answer other than "y" raises ValueError
confirm ==
    /\ At("confirm")
    /\ \E answer \in {"y", "n"} :
          IF answer = "y"
          THEN Goto("create_public_ip") /\ UNCHANGED err
          ELSE Raises(Orch, "confirm", "ValueError")
    /\ Log("confirm")
    /\ UNCHANGED <<U_nofault, U_local, ip_address, returned, created, cloudVars,
                   fileVars>>

\* a create call that gives the resource of that name a new address
addresses_after_create_replacing(addresses, name, fresh) ==
    Put(addresses, name, fresh)

\* the address resources after a create_public_ip call that succeeded: the
\* provider keeps one resource per name, and a create for a name that is
\* taken (accepted by the Azure provider only) leaves its address as it is
addresses_after_create(addresses, name, fresh) ==
    IF Has(addresses, name) THEN addresses ELSE Put(addresses, name, fresh)

\* ip_address = cloud_api.create_public_ip(ip_name, ip_rg, region)
create_public_ip ==
    /\ At("create_public_ip")
    /\ LET name == ip_name(cfg[Orch].node) IN
       \/ /\ create_result(Cloud, Has(ips, name)) = "ok"
          /\ ips' = addresses_after_create(ips, name, next_addr)
          /\ next_addr' = IF Has(ips, name) THEN next_addr ELSE next_addr + 1
          /\ ip_address' = ips'[name]
          /\ UNCHANGED returned
          /\ created' = IF Has(ips, name) THEN created
                        ELSE created \cup {<<"ip", name>>}
          /\ Returns("create_public_ip", "update_dns_metrics")
          /\ UNCHANGED <<U_local, groups, dns, images, disks, rules, nsgs,
                         vms, fileVars>>
       \/ /\ create_result(Cloud, Has(ips, name)) # "ok"
          /\ CallRaises("create_public_ip", create_result(Cloud, Has(ips, name)))
          /\ UNCHANGED <<faults, faulted, U_local, ip_address, returned, created,
                         cloudVars, fileVars>>
       \/ CallFails("create_public_ip")

\* an update_dns_record that only adds the address
dns_record_after_add_only(previous_ips, ip, remove_old) ==
    previous_ips \cup {ip}

\* update_dns_record(config, ip_address, remove_old): if remove_old, every
\* non-empty previous address (0 is the empty string) is removed with
\* remove_dns_ip; then add_dns_ip adds ip_address
dns_record_after(previous_ips, ip, remove_old) ==
    (IF remove_old THEN { old_ip \in previous_ips : old_ip = 0 }
     ELSE previous_ips) \cup {ip}

\* update_dns_record(config, ip, remove_old=True): the record's previous
\* addresses are removed and ip is added
update_dns(record, next) ==
    \/ /\ dns' = [dns EXCEPT ![record] =
                     dns_record_after(dns[record], ip_address, TRUE)]
       /\ Returns("update_dns_record", next)
       /\ UNCHANGED <<U_local, ip_address, returned, created, groups, ips,
                      next_addr, images, disks, rules, nsgs, vms,
                      fileVars>>
    \/ CallFails("update_dns_record")

\* AzureApi.update_dns_record(metrics_cfg, ip_address, remove_old=True)
update_dns_metrics ==
    /\ At("update_dns_metrics")
    /\ update_dns("metrics", "update_dns_record")

\* a pipeline that goes on to the image whatever --ip-only says
after_dns_ip_only_ignored(ip_only) == "maybe_build"

\* if args.ip_only: return
after_dns(ip_only) == IF ip_only THEN "done" ELSE "maybe_build"

\* AzureApi.update_dns_record(deploy_cfg, ip_address, remove_old=True)
update_dns_record ==
    /\ At("update_dns_record")
    /\ update_dns("node", after_dns(cfg[Orch].ip_only))

\* the temporary files of a run: tempfile.mkstemp and tempfile.mktemp give
\* every call a name of its own
UserDataFile == <<"user_data", attempt>>
MeasurementsFile == <<"measurements", attempt>>

\* image_path, measurements = maybe_build(cfg); deployer = Deployer(...)
\* and Deployer.__init__ writes the measurements to a file of its own
\* (write_measurements_tmpfile: tempfile.mktemp, open, json.dump), which only
\* Deployer.cleanup removes
maybe_build ==
    /\ At("maybe_build")
    /\ \/ /\ tmp_files' = tmp_files \cup {MeasurementsFile}
          /\ Returns("maybe_build", "deploy_image")
          /\ UNCHANGED <<U_local, ip_address, returned, created, cloudVars, file, file0,
                         writes, local_files, op>>
       \/ /\ faults < MaxFaults
          /\ faults' = faults + 1
          /\ faulted' = TRUE
          /\ \E opened \in BOOLEAN :
                tmp_files' = IF opened THEN tmp_files \cup {MeasurementsFile}
                             ELSE tmp_files
          /\ CallRaises("maybe_build", "OSError")
          /\ UNCHANGED <<U_local, ip_address, returned, created, cloudVars, file, file0,
                         writes, local_files, op>>

\* ------------------------------------------------------------------------
\* deploy_image
\* ------------------------------------------------------------------------
BootDisk == get_disk_name(Vm, Artifact)
DataDisk == data_disk_name(Vm)

\* a deploy_image that does not look for the image file
image_path_exists_unchecked(files, artifact) == TRUE

\* image_path.exists()
image_path_exists(files, artifact) == artifact \in files

\* if not image_path.exists(): raise FileNotFoundError
deploy_image ==
    /\ At("deploy_image")
    /\ IF image_path_exists(local_files, Artifact)
       THEN Goto("disk_exists") /\ UNCHANGED err
       ELSE Raises(Orch, "deploy_image", "FileNotFoundError")
    /\ Log("deploy_image")
    /\ UNCHANGED <<U_nofault, U_local, ip_address, returned, created, cloudVars,
                   fileVars>>

\* the branch of deploy_image that creates the disk whatever the check says
after_disk_exists_always_create(exists) == "create_disk"

\* if cloud_api.disk_exists(...): get_disk_name else: create_disk
after_disk_exists(exists) ==
    IF exists THEN "get_disk_name" ELSE "create_disk"

\* if cloud_api.disk_exists(configs, image_path); the GCP call answers
\* False for every exception
disk_exists ==
    /\ At("disk_exists")
    /\ \/ /\ disk_existed' = Has(disks, BootDisk)
          /\ Returns("disk_exists", after_disk_exists(Has(disks, BootDisk)))
          /\ UNCHANGED <<cfg, mem, loaded, out, attempt, wait, prev_fail, prev_ip, rule_idx,
                         ip_address, returned, created, cloudVars, fileVars>>
       \/ /\ Cloud = "gcp" /\ faults < MaxFaults
          /\ faults' = faults + 1
          /\ faulted' = TRUE
          /\ disk_existed' = FALSE
          /\ Goto(after_disk_exists(FALSE))
          /\ Log("disk_exists")
          /\ UNCHANGED <<err, last_fault, cfg, mem, loaded, out, attempt, wait, prev_fail, prev_ip,
                         rule_idx, ip_address, returned, created, cloudVars, fileVars>>
       \/ /\ Cloud = "azure"
          /\ CallFails("disk_exists")

\* disk_name = cloud_api.get_disk_name(configs, image_path)
get_disk_name_step ==
    /\ At("get_disk_name")
    /\ Returns("get_disk_name", "upload_disk")
    /\ UNCHANGED <<U_local, ip_address, returned, created, cloudVars, fileVars>>

\* disk_name = cloud_api.create_disk(configs, image_path).  GcpApi uploads
\* the image, creates the GCP image unless it exists, and inserts the disk
create_disk ==
    /\ At("create_disk")
    /\ LET img == <<Vm, Artifact>>
           withImage == IF Cloud = "gcp" THEN images \cup {img} ELSE images
           newImage == IF Cloud = "gcp" /\ img \notin images
                       THEN {<<"image", img>>} ELSE {}
       IN
       \/ /\ create_result(Cloud, Has(disks, BootDisk)) = "ok"
          /\ images' = withImage
          /\ disks' = IF Has(disks, BootDisk) THEN disks
                      ELSE Put(disks, BootDisk, 0)
          /\ created' = created \cup newImage \cup
                        (IF Has(disks, BootDisk) THEN {}
                         ELSE {<<"disk", BootDisk>>})
          /\ Returns("create_disk", "upload_disk")
          /\ UNCHANGED <<U_local, ip_address, returned, groups, ips, next_addr, dns,
                         rules, nsgs, vms, fileVars>>
       \/ /\ create_result(Cloud, Has(disks, BootDisk)) # "ok"
          /\ images' = withImage
          /\ created' = created \cup newImage
          /\ CallRaises("create_disk",
                        create_result(Cloud, Has(disks, BootDisk)))
          /\ UNCHANGED <<faults, faulted, U_local, ip_address, returned, groups, ips,
                         next_addr, dns, disks, rules, nsgs, vms, fileVars>>
       \/ \* the disk insert fails after the image was created
          /\ Cloud = "gcp" /\ faults < MaxFaults
          /\ images' = withImage
          /\ created' = created \cup newImage
          /\ \E e \in CloudErrors : CallRaises("create_disk", e)
          /\ faults' = faults + 1
          /\ faulted' = TRUE
          /\ UNCHANGED <<U_local, ip_address, returned, groups, ips, next_addr, dns,
                         disks, rules, nsgs, vms, fileVars>>
       \/ CallFails("create_disk")

\* cloud_api.upload_disk(configs, image_path): a log line on GCP
upload_disk ==
    /\ At("upload_disk")
    /\ \/ /\ Returns("upload_disk", "create_nsg")
          /\ UNCHANGED <<U_local, ip_address, returned, created, cloudVars, fileVars>>
       \/ /\ Cloud = "azure"
          /\ CallFails("upload_disk")

\* cloud_api.create_nsg(configs): a log line on GCP
create_nsg ==
    /\ At("create_nsg")
    /\ \/ /\ nsgs' = IF Cloud = "azure" /\ azure_create(Vm \in nsgs) = "ok"
                      THEN nsgs \cup {Vm} ELSE nsgs
          /\ created' = IF Cloud = "azure" /\ Vm \notin nsgs
                        THEN created \cup {<<"nsg", Vm>>} ELSE created
          /\ Returns("create_nsg", "create_standard_nsg_rules")
          /\ UNCHANGED <<U_local, ip_address, returned, groups, ips, next_addr, dns,
                         images, disks, rules, vms, fileVars>>
       \/ /\ Cloud = "azure"
          /\ CallFails("create_nsg")

\* cloud_api.create_standard_nsg_rules(configs): entry of the loop
create_standard_nsg_rules ==
    /\ At("create_standard_nsg_rules")
    /\ rule_idx' = 1
    /\ Returns("create_standard_nsg_rules", "add_nsg_rule")
    /\ UNCHANGED <<cfg, mem, loaded, out, attempt, wait, prev_fail, prev_ip, disk_existed,
                   ip_address, returned, created, cloudVars, fileVars>>

\* an add_nsg_rule without the handler around the insert
add_nsg_rule_result_uncaught(cloud, exists) ==
    IF create_result(cloud, exists) = "ok" THEN "ok" ELSE "raised"

\* try: insert and wait; except Exception: logger.warning(...).  The
\* conflict on a rule that exists is caught and logged
add_nsg_rule_result(cloud, exists) ==
    IF create_result(cloud, exists) = "ok" THEN "ok" ELSE "warned"

\* one iteration of the loop: cls.add_nsg_rule(config, name, ...).
\* GcpApi.add_nsg_rule catches every exception of the insert and warns
add_nsg_rule ==
    /\ At("add_nsg_rule")
    /\ LET r == StandardRules[rule_idx]
           key == <<Vm, r.name>>
           next == IF rule_idx = Len(StandardRules)
                   THEN "create_data_disk" ELSE "add_nsg_rule"
           res == add_nsg_rule_result(Cloud, Has(rules, key))
       IN
       \/ /\ res # "raised"
          /\ rules' = IF Has(rules, key) THEN rules ELSE Put(rules, key, r)
          /\ created' = IF Has(rules, key) THEN created
                        ELSE created \cup {<<"rule", key>>}
          /\ rule_idx' = rule_idx + 1
          /\ Returns("add_nsg_rule", next)
          /\ UNCHANGED <<cfg, mem, loaded, out, attempt, wait, prev_fail, prev_ip, disk_existed,
                         ip_address, returned, groups, ips, next_addr, dns, images,
                         disks, nsgs, vms, fileVars>>
       \/ /\ res = "raised"
          /\ CallRaises("add_nsg_rule", "AlreadyExists")
          /\ UNCHANGED <<faults, faulted, U_local, ip_address, returned, created,
                         cloudVars, fileVars>>
       \/ /\ Cloud = "gcp" /\ faults < MaxFaults
          /\ faults' = faults + 1
          /\ faulted' = TRUE
          /\ rule_idx' = rule_idx + 1
          /\ Goto(next)
          /\ Log("add_nsg_rule")
          /\ UNCHANGED <<err, last_fault, cfg, mem, loaded, out, attempt, wait, prev_fail, prev_ip,
                         disk_existed, ip_address, returned, created, cloudVars,
                         fileVars>>
       \/ /\ Cloud = "azure"
          /\ CallFails("add_nsg_rule")

\* cloud_api.create_data_disk(..., size_gb=1024): GcpApi inserts the disk
\* without looking it up first
create_data_disk_result(cloud, exists) == create_result(cloud, exists)

create_data_disk ==
    /\ At("create_data_disk")
    /\ LET res == create_data_disk_result(Cloud, Has(disks, DataDisk)) IN
       \/ /\ res = "ok"
          /\ disks' = IF Has(disks, DataDisk) THEN disks
                      ELSE Put(disks, DataDisk, DATA_DISK_SIZE_GB)
          /\ created' = IF Has(disks, DataDisk) THEN created
                        ELSE created \cup {<<"disk", DataDisk>>}
          /\ Returns("create_data_disk", "create_user_data_file")
          /\ UNCHANGED <<U_local, ip_address, returned, groups, ips, next_addr, dns,
                         images, rules, nsgs, vms, fileVars>>
       \/ /\ res # "ok"
          /\ CallRaises("create_data_disk", res)
          /\ UNCHANGED <<faults, faulted, U_local, ip_address, returned, created,
                         cloudVars, fileVars>>
       \/ CallFails("create_data_disk")

\* the step deploy_image takes after create_vm, were the attach skipped
after_create_vm_no_attach(cloud) == "get_vm_ip"

\* the step deploy_image takes after create_vm, were the disk attached in a
\* call of its own on every provider
after_create_vm_always_attach(cloud) == "attach_data_disk"

\* if configs.vm.cloud == CloudProvider.GCP: create_vm(..., data_disk_name)
\* else: create_vm(...) and then attach_data_disk(..., lun=10)
after_create_vm(cloud) ==
    IF cloud = "gcp" THEN "get_vm_ip" ELSE "attach_data_disk"

\* the VM a create_vm call creates (the create_vm that takes the boot disk
\* name and, on GCP, the data disk is not part of the sources): on GCP the
\* data disk is attached by the create call, which is given no LUN; on
\* Azure the VM starts without a data disk
created_vm(cloud, ip, data_disk) ==
    IF cloud = "gcp"
    THEN [ip |-> ip, data_disk |-> data_disk, lun |-> 0]
    ELSE [ip |-> ip, data_disk |-> NoDisk, lun |-> 0]

\* what the except clause of create_user_data_file leaves of the file when
\* writing it failed: GcpApi closes the descriptor and raises again, the
\* file stays; the Azure provider removes it
after_write_failure(cloud, files, f) ==
    IF cloud = "gcp" THEN files \cup {f} ELSE files \ {f}

\* user_data_file = cls.create_user_data_file(config), the first statement
\* of create_vm, outside its try block
create_user_data_file ==
    /\ At("create_user_data_file")
    /\ \/ /\ tmp_files' = tmp_files \cup {UserDataFile}
          /\ Goto("create_vm")
          /\ UNCHANGED <<err, calls, U_nofault>>
       \/ /\ faults < MaxFaults
          /\ faults' = faults + 1
          /\ faulted' = TRUE
          /\ tmp_files' = after_write_failure(Cloud, tmp_files, UserDataFile)
          /\ CallRaises("create_vm", "OSError")
    /\ UNCHANGED <<U_local, ip_address, returned, created, cloudVars, file, file0,
                   writes, local_files, op>>

\* a create_vm that removes the user-data file only when the VM was created
unlink_unless_raised(files, f, raised) ==
    IF raised THEN files ELSE files \ {f}

\* finally: os.unlink(user_data_file), whether the try block raised or not
finally_unlink(files, f, raised) == files \ {f}

\* the public address of the VM create_vm creates.  GcpApi.create_vm takes
\* ip_name and never uses it: the network interface it builds names no
\* address, so the instance has the address the provider gives it, if any
\* (none through the API, an ephemeral one through the gcloud command); the
\* Azure provider binds the address resource ip_name
vm_address(cloud, reserved, ephemeral) ==
    IF cloud = "gcp" THEN ephemeral ELSE reserved

\* cloud_api.create_vm(configs, image_path, ip_name, disk_name[, data_disk])
\* from its try block on
create_vm ==
    /\ At("create_vm")
    /\ LET res == create_result(Cloud, Has(vms, Vm))
           name == ip_name(cfg[Orch].node)
       IN
       \/ /\ res = "ok"
          /\ \E ephemeral \in {0, next_addr} :
                LET ip == vm_address(Cloud, Get(ips, name, 0), ephemeral)
                    vm == created_vm(Cloud, ip, DataDisk)
                IN  /\ vms' = IF Has(vms, Vm) THEN vms ELSE Put(vms, Vm, vm)
                    /\ next_addr' = IF ~Has(vms, Vm) /\ ip = next_addr
                                    THEN next_addr + 1 ELSE next_addr
          /\ created' = IF Has(vms, Vm) THEN created
                        ELSE created \cup {<<"vm", Vm>>}
          /\ tmp_files' = finally_unlink(tmp_files, UserDataFile, FALSE)
          /\ Returns("create_vm", after_create_vm(Cloud))
          /\ UNCHANGED <<U_local, ip_address, returned, groups, ips, dns,
                         images, disks, rules, nsgs, file, file0, writes,
                         local_files, op>>
       \/ /\ res # "ok"
          /\ CallRaises("create_vm", res)
          /\ tmp_files' = finally_unlink(tmp_files, UserDataFile, TRUE)
          /\ UNCHANGED <<faults, faulted, U_local, ip_address, returned, created,
                         cloudVars, file, file0, writes, local_files, op>>
       \/ /\ faults < MaxFaults
          /\ \E e \in CloudErrors : CallRaises("create_vm", e)
          /\ faults' = faults + 1
          /\ faulted' = TRUE
          /\ tmp_files' = finally_unlink(tmp_files, UserDataFile, TRUE)
          /\ UNCHANGED <<U_local, ip_address, returned, created, cloudVars, file,
                         file0, writes, local_files, op>>

\* cloud_api.attach_data_disk(..., lun=10): Azure only
attach_data_disk ==
    /\ At("attach_data_disk")
    /\ \/ /\ vms' = [vms EXCEPT ![Vm] = [@ EXCEPT !.data_disk = DataDisk,
                                                 !.lun = DATA_DISK_LUN]]
          /\ Returns("attach_data_disk", "get_vm_ip")
          /\ UNCHANGED <<U_local, ip_address, returned, created, groups, ips,
                         next_addr, dns, images, disks, rules, nsgs,
                         fileVars>>
       \/ CallFails("attach_data_disk")

\* a Deployer.deploy that accepts an empty public IP
deploy_accepts_any(public_ip) == TRUE

\* Deployer.deploy: if not public_ip: raise RuntimeError
deploy_accepts(public_ip) == public_ip # 0

\* public_ip = cloud_api.get_vm_ip(...); return (public_ip, data_disk_name);
\* then the check of Deployer.deploy on the returned address
get_vm_ip ==
    /\ At("get_vm_ip")
    /\ \/ \E public_ip \in {vms[Vm].ip, 0} :
            \* the provider may report no address for the VM
            /\ (public_ip = 0 /\ vms[Vm].ip # 0) => faults < MaxFaults
            /\ faults' = IF public_ip = 0 /\ vms[Vm].ip # 0
                         THEN faults + 1 ELSE faults
            /\ faulted' = (faulted \/ (public_ip = 0 /\ vms[Vm].ip # 0))
            /\ IF deploy_accepts(public_ip)
               THEN /\ out' = [out EXCEPT ![Orch] =
                                  [public_ip |-> public_ip,
                                   data_disk_name |-> DataDisk]]
                    /\ Goto("update_deploy_metadata")
                    /\ UNCHANGED err
               ELSE /\ Raises(Orch, "deploy", "RuntimeError")
                    /\ UNCHANGED out
            /\ Log("get_vm_ip")
            /\ UNCHANGED <<last_fault, cfg, mem, loaded, attempt, wait, prev_fail, prev_ip,
                           disk_existed, rule_idx, ip_address, returned, created,
                           cloudVars, fileVars>>
       \/ CallFails("get_vm_ip")

\* ------------------------------------------------------------------------
\* The metadata store
\* ------------------------------------------------------------------------
LogIfOrch(p, step) ==
    calls' = IF p = Orch THEN Append(calls, step) ELSE calls

U_meta == <<cfg, out, attempt, wait, prev_fail, prev_ip, disk_existed, rule_idx, ip_address, returned,
            created, faults, faulted, last_fault, cloudVars, local_files, tmp_files, op>>

\* DeployOutput.update_deploy_metadata up to the call of write_metadata:
\* metadata = load_metadata(home), then the upsert in memory
update_deploy_metadata(p) ==
    /\ pc[p] = "update_deploy_metadata"
    /\ LET r == load_metadata(file) IN
          IF r.ok
          THEN /\ loaded' = [loaded EXCEPT ![p] = r.doc]
               /\ mem' = [mem EXCEPT ![p] =
                            upsert_vm(r.doc, cfg[p], out[p].public_ip,
                                      out[p].data_disk_name)]
               /\ pc' = [pc EXCEPT ![p] = "write_metadata"]
               /\ UNCHANGED err
          ELSE /\ Raises(p, "load_metadata", r.error)
               /\ UNCHANGED <<mem, loaded>>
    /\ LogIfOrch(p, "update_deploy_metadata")
    /\ UNCHANGED <<U_meta, file, file0, writes>>

\* a write_metadata that reads the file again and merges before truncating
write_metadata_rereading(p) ==
    /\ pc[p] = "write_metadata"
    /\ mem' = [mem EXCEPT ![p] =
                 IF file.kind = "doc"
                 THEN upsert_vm(file.doc, cfg[p], out[p].public_ip,
                                out[p].data_disk_name)
                 ELSE @]
    /\ file' = EmptyFile
    /\ pc' = [pc EXCEPT ![p] = "json_dump"]
    /\ LogIfOrch(p, "write_metadata")
    /\ UNCHANGED <<loaded, err, U_meta, file0, writes>>

\* write_metadata: open(path, "w+") creates the file or truncates it
write_metadata(p) ==
    /\ pc[p] = "write_metadata"
    /\ file' = EmptyFile
    /\ pc' = [pc EXCEPT ![p] = "json_dump"]
    /\ LogIfOrch(p, "write_metadata")
    /\ UNCHANGED <<mem, loaded, err, U_meta, file0, writes>>

\* json.dump has flushed a first part of the document
json_dump_chunk(p) ==
    /\ pc[p] = "json_dump"
    /\ file' = FileOf("partial", EmptyMap)
    /\ pc' = [pc EXCEPT ![p] = "json_dump_rest"]
    /\ UNCHANGED <<mem, loaded, err, calls, U_meta, file0, writes>>

\* json.dump completes and the file is closed.  When another process wrote
\* the file after this one truncated it, the two documents overlay each
\* other and the result is either this document or not a document at all
json_dump(p) ==
    /\ pc[p] \in {"json_dump", "json_dump_rest"}
    /\ \/ file' = FileOf("doc", mem[p])
       \/ /\ file.kind = "doc"
          /\ file' = MalformedFile
    /\ writes' = [writes EXCEPT ![p] = @ + 1]
    /\ pc' = [pc EXCEPT ![p] = "done"]
    /\ UNCHANGED <<mem, loaded, err, calls, U_meta, file0>>

\* the process is killed while it is inside write_metadata
kill(p) ==
    /\ pc[p] \in {"json_dump", "json_dump_rest"}
    /\ pc' = [pc EXCEPT ![p] = "killed"]
    /\ UNCHANGED <<mem, loaded, err, calls, U_meta, file, file0, writes>>

\* ------------------------------------------------------------------------
\* Running the pipeline again with the same inputs
\* ------------------------------------------------------------------------
Terminal == {"done", "raised"}

rerun ==
    /\ pc[Orch] \in Terminal
    /\ attempt < MaxAttempts
    /\ attempt' = attempt + 1
    /\ prev_fail' = IF pc[Orch] = "raised" THEN err[Orch].at ELSE "none"
    /\ prev_ip' = ip_address
    /\ pc' = [pc EXCEPT ![Orch] = "start"]
    /\ err' = [err EXCEPT ![Orch] = NoError]
    /\ mem' = [mem EXCEPT ![Orch] = EmptyMap]
    /\ loaded' = [loaded EXCEPT ![Orch] = EmptyMap]
    /\ out' = [out EXCEPT ![Orch] = NoOutput]
    /\ calls' = << >>
    /\ faulted' = FALSE
    /\ last_fault' = NoError
    /\ created' = {}
    /\ disk_existed' = FALSE
    /\ rule_idx' = 1
    /\ ip_address' = 0
    /\ UNCHANGED returned
    /\ file0' = file
    /\ writes' = [writes EXCEPT ![Orch] = 0]
    /\ UNCHANGED <<cfg, wait, faults, cloudVars, file, local_files, tmp_files, op>>

\* ------------------------------------------------------------------------
\* Specification of one orchestrator
\* ------------------------------------------------------------------------
Next ==
    \/ validate_args
    \/ check_dependencies
    \/ ensure_created_resource_group
    \/ get_or_create_node_ip
    \/ get_existing_public_ip
    \/ confirm
    \/ create_public_ip
    \/ update_dns_metrics
    \/ update_dns_record
    \/ maybe_build
    \/ deploy_image
    \/ disk_exists
    \/ get_disk_name_step
    \/ create_disk
    \/ upload_disk
    \/ create_nsg
    \/ create_standard_nsg_rules
    \/ add_nsg_rule
    \/ create_data_disk
    \/ create_user_data_file
    \/ create_vm
    \/ attach_data_disk
    \/ get_vm_ip
    \/ update_deploy_metadata(Orch)
    \/ write_metadata(Orch)
    \/ json_dump_chunk(Orch)
    \/ json_dump(Orch)
    \/ rerun

Spec == Init /\ [][Next]_vars

\* ------------------------------------------------------------------------
\* Specification of two orchestrators that finished deploying two different
\* VMs and record them in the same metadata file
\* ------------------------------------------------------------------------
\* the cloud after the VMs of nodes 1 and 2 were deployed
DeployedCloud ==
    /\ groups = {Group}
    /\ ips = (ip_name(1) :> 1 @@ ip_name(2) :> 2)
    /\ next_addr = 3
    /\ dns = [r \in {"node", "metrics"} |-> {}]
    /\ images = {}
    /\ disks = EmptyMap
    /\ rules = EmptyMap
    /\ nsgs = {}
    /\ vms = (VmName(1) :> [ip |-> 1, data_disk |-> data_disk_name(VmName(1)),
                            lun |-> 0]
              @@ VmName(2) :> [ip |-> 2,
                               data_disk |-> data_disk_name(VmName(2)),
                               lun |-> 0])

\* what Deployer.deploy returned for node n
Deployed(n) == [public_ip |-> n, data_disk_name |-> data_disk_name(VmName(n))]

InitRace ==
    /\ \E c1 \in Clouds, c2 \in Clouds :
          cfg = [p \in Procs |->
                   Config(IF p = 1 THEN c1 ELSE c2, p, FALSE, TRUE)]
    /\ pc = [p \in Procs |-> "update_deploy_metadata"]
    /\ mem = [p \in Procs |-> EmptyMap]
    /\ loaded = [p \in Procs |-> EmptyMap]
    /\ out = [p \in Procs |-> Deployed(p)]
    /\ err = [p \in Procs |-> NoError]
    /\ InitRun
    /\ DeployedCloud
    /\ file \in {FileOf("doc", d) : d \in InitialDocs}
    /\ file0 = file
    /\ writes = [p \in Procs |-> 0]
    /\ tmp_files = {}
    /\ local_files = {Artifact, OtherArtifact}
    /\ op = NoOp

NextRace ==
    \E p \in Procs :
        \/ update_deploy_metadata(p)
        \/ write_metadata(p)
        \/ json_dump_chunk(p)
        \/ json_dump(p)
        \/ kill(p)

SpecRace == InitRace /\ [][NextRace]_vars

\* ------------------------------------------------------------------------
\* Metadata-store operations run by the operator between deployments
\* ------------------------------------------------------------------------
OpOutcome(name, arg, result, error, value) ==
    [name |-> name, arg |-> arg, result |-> result, error |-> error,
     value |-> value]

OpRaised(name, arg, error) == OpOutcome(name, arg, "raised", error, EmptyMap)

OpReturned(name, arg, result, value) ==
    OpOutcome(name, arg, result, "none", value)

\* no write_metadata is in progress
StoreIdle == pc[Orch] = "idle"

U_store == <<procVars, runVars, cloudVars, file0, writes, tmp_files>>

\* a deployment of node n on cloud c returned from Deployer.deploy
deployed ==
    /\ StoreIdle
    /\ \E c \in Clouds, n \in {1, 2} :
          /\ cfg' = [cfg EXCEPT ![Orch] = Config(c, n, FALSE, TRUE)]
          /\ out' = [out EXCEPT ![Orch] = Deployed(n)]
    /\ pc' = [pc EXCEPT ![Orch] = "update_deploy_metadata"]
    /\ err' = [err EXCEPT ![Orch] = NoError]
    /\ UNCHANGED <<mem, loaded, runVars, cloudVars, fileVars>>

\* update_deploy_metadata returned or raised and the tool exits
finish ==
    /\ pc[Orch] \in Terminal
    /\ pc' = [pc EXCEPT ![Orch] = "idle"]
    /\ mem' = [mem EXCEPT ![Orch] = EmptyMap]
    /\ loaded' = [loaded EXCEPT ![Orch] = EmptyMap]
    /\ out' = [out EXCEPT ![Orch] = NoOutput]
    /\ err' = [err EXCEPT ![Orch] = NoError]
    /\ writes' = [writes EXCEPT ![Orch] = 0]
    /\ calls' = << >>
    /\ UNCHANGED <<cfg, attempt, wait, faults, faulted, last_fault, prev_fail, prev_ip,
                   created, disk_existed, rule_idx, ip_address, returned, cloudVars,
                   file, file0, local_files, tmp_files, op>>

\* remove_vm_from_metadata(name, home)
remove_vm_from_metadata ==
    /\ StoreIdle
    /\ \E name \in {VmName(1), VmName(2)} :
          LET r == load_metadata(file)
              arg == <<"vm", name>>
              resources == Get(r.doc, "resources", EmptyMap)
          IN  IF ~r.ok
              THEN /\ op' = OpRaised("remove_vm_from_metadata", arg, r.error)
                   /\ UNCHANGED file
              ELSE IF ~Has(resources, name)
              THEN /\ op' = OpReturned("remove_vm_from_metadata", arg,
                                       "returned", EmptyMap)
                   /\ UNCHANGED file
              ELSE /\ op' = OpReturned("remove_vm_from_metadata", arg,
                                       "returned", EmptyMap)
                   /\ file' = FileOf("doc", Put(r.doc, "resources",
                                                Remove(resources, name)))
    /\ UNCHANGED <<U_store, local_files>>

\* the document remove_artifact_from_metadata leaves behind
artifact_removed(metadata, name) ==
    LET artifacts == Get(metadata, "artifacts", EmptyMap) IN
        IF ~Has(artifacts, name) THEN metadata
        ELSE Put(metadata, "artifacts", Remove(artifacts, name))

\* remove_artifact_from_metadata(name, home)
remove_artifact_from_metadata ==
    /\ StoreIdle
    /\ \E name \in {Artifact, OtherArtifact} :
          LET r == load_metadata(file)
              arg == <<"artifact", name>>
          IN  IF ~r.ok
              THEN /\ op' = OpRaised("remove_artifact_from_metadata", arg,
                                     r.error)
                   /\ UNCHANGED file
              ELSE /\ op' = OpReturned("remove_artifact_from_metadata", arg,
                                       "returned", EmptyMap)
                   /\ file' = FileOf("doc", artifact_removed(r.doc, name))
    /\ UNCHANGED <<U_store, local_files>>

\* the dictionary filter_resources_by_cloud builds from the document
filtered(metadata, cloud) ==
    LET resources == Get(metadata, "resources", EmptyMap)
        keep == { name \in DOMAIN resources :
                    Get(Get(resources[name], "vm", EmptyMap), "cloud", "none")
                        = cloud }
    IN  [name \in keep |-> resources[name]]

\* filter_resources_by_cloud(home, cloud)
filter_resources_by_cloud ==
    /\ StoreIdle
    /\ \E cloud \in Clouds :
          LET r == load_metadata(file)
              arg == <<"cloud", cloud>>
          IN  IF ~r.ok
              THEN op' = OpRaised("filter_resources_by_cloud", arg, r.error)
              ELSE op' = OpReturned("filter_resources_by_cloud", arg,
                                    "returned", filtered(r.doc, cloud))
    /\ UNCHANGED <<U_store, file, local_files>>

\* the clouds whose bucket records vm_name
clouds_of(metadata, vm_name) ==
    LET resources == Get(metadata, "resources", EmptyMap) IN
        { c \in DOMAIN resources : Has(resources[c], vm_name) }

\* delete_vm(vm_name, home): looks the VM up in every bucket and hands it to
\* the delete_vm of its provider
delete_vm ==
    /\ StoreIdle
    /\ \E vm_name \in {VmName(1), VmName(2)} :
          LET r == load_metadata(file)
              arg == <<"vm", vm_name>>
          IN  IF ~r.ok
              THEN op' = OpRaised("delete_vm", arg, r.error)
              ELSE IF clouds_of(r.doc, vm_name) = {}
              THEN op' = OpReturned("delete_vm", arg, "False", EmptyMap)
              ELSE op' = OpReturned("delete_vm", arg, "True", EmptyMap)
    /\ UNCHANGED <<U_store, file, local_files>>

\* the VMs whose metadata entry names the artifact
deployed_to(metadata, artifact) ==
    LET resources == Get(metadata, "resources", EmptyMap) IN
        { cv \in UNION { {<<c, v>> : v \in DOMAIN resources[c]} :
                           c \in DOMAIN resources } :
            Get(resources[cv[1]][cv[2]], "artifact", NoDisk[2]) = artifact }

\* _extract_timestamp(artifact)
extract_timestamp(artifact) == artifact[2]

\* what the operator may type at the prompt of delete_artifact
Answers == {"y", "Y", " y ", "n", "yes", ""}

\* confirm.strip().lower()
strip_lower(answer) ==
    CASE answer \in {"y", "Y", " y "} -> "y"
      [] answer = "yes" -> "yes"
      [] answer = "n" -> "n"
      [] OTHER -> ""

\* a delete_artifact that goes on whatever the operator answers
declines_never(answer) == FALSE

\* if confirm.strip().lower() != "y": return
declines(answer) == strip_lower(answer) # "y"

\* a glob that matches every file of the artifacts directory
glob_any(files, timestamp) == files

\* glob.glob(f"{artifacts_path}/*{timestamp}*"): the files of the artifacts
\* directory whose name contains the timestamp
glob_timestamp(files, timestamp) ==
    { f \in files : extract_timestamp(f) = timestamp }

\* delete_artifact from line 141 on: the files of the timestamp are removed
\* and, if there was one, remove_artifact_from_metadata is called
delete_files(metadata, artifact, arg, value) ==
    LET matches == glob_timestamp(local_files, extract_timestamp(artifact))
    IN  IF matches = {}
        THEN /\ op' = OpReturned("delete_artifact", arg, "no files", value)
             /\ UNCHANGED <<file, local_files>>
        ELSE /\ op' = OpReturned("delete_artifact", arg, "deleted", value)
             /\ local_files' = local_files \ matches
             /\ file' = FileOf("doc", artifact_removed(metadata, artifact))

\* delete_artifact(artifact, home); the prompt is shown only when a VM of
\* the metadata document names the artifact
delete_artifact ==
    /\ StoreIdle
    /\ \E artifact \in {Artifact, OtherArtifact} :
          LET r == load_metadata(file)
              arg == <<"artifact", artifact>>
          IN  IF ~r.ok
              THEN /\ op' = OpRaised("delete_artifact", arg, r.error)
                   /\ UNCHANGED <<file, local_files>>
              ELSE IF deployed_to(r.doc, artifact) = {}
              THEN delete_files(r.doc, artifact, arg, EmptyMap)
              ELSE \E answer \in Answers :
                      IF declines(answer)
                      THEN /\ op' = OpReturned("delete_artifact", arg,
                                               "declined",
                                               [answer |-> answer])
                           /\ UNCHANGED <<file, local_files>>
                      ELSE delete_files(r.doc, artifact, arg,
                                        [answer |-> answer])
    /\ UNCHANGED U_store

\* ------------------------------------------------------------------------
\* Specification of the metadata store: deployments recording their VM and
\* the operator's store operations, one after the other
\* ------------------------------------------------------------------------
InitStore ==
    /\ cfg = [p \in Procs |-> Config("azure", 1, FALSE, TRUE)]
    /\ pc = [p \in Procs |-> "idle"]
    /\ mem = [p \in Procs |-> EmptyMap]
    /\ loaded = [p \in Procs |-> EmptyMap]
    /\ out = [p \in Procs |-> NoOutput]
    /\ err = [p \in Procs |-> NoError]
    /\ InitRun
    /\ DeployedCloud
    /\ file \in InitialFiles
    /\ file0 = file
    /\ writes = [p \in Procs |-> 0]
    /\ tmp_files = {}
    /\ local_files \in { {Artifact, OtherArtifact},
                         {Artifact, <<"seismic-dev-gcp", 2, ".tar.gz">>,
                          OtherArtifact,
                          <<"cvm-image-azure-tdx.rootfs", 1, ".wic.vhd">>},
                         {OtherArtifact} }
    /\ op = NoOp

NextStore ==
    \/ deployed
    \/ finish
    \/ update_deploy_metadata(Orch)
    \/ write_metadata(Orch)
    \/ json_dump_chunk(Orch)
    \/ json_dump(Orch)
    \/ remove_vm_from_metadata
    \/ remove_artifact_from_metadata
    \/ filter_resources_by_cloud
    \/ delete_vm
    \/ delete_artifact

SpecStore == InitStore /\ [][NextStore]_vars

\* ------------------------------------------------------------------------
\* azure_deploy.deploy_vm: the straight-line Azure deployment
\* ------------------------------------------------------------------------
\* the AzureApi calls of deploy_vm, in program order
DeployVmCalls ==
    <<"check_dependencies", "create_resource_group", "create_public_ip",
      "update_dns_record", "create_disk", "upload_disk", "create_nsg",
      "create_standard_nsg_rules", "create_vm">>

\* position of deploy_vm before its i-th call
DeployVmPc ==
    <<"vm_check_dependencies", "vm_create_resource_group",
      "vm_create_public_ip", "vm_update_dns_record", "vm_create_disk",
      "vm_upload_disk", "vm_create_nsg", "vm_create_standard_nsg_rules",
      "vm_create_vm">>

\* create_public_ip(config.resource_group, config.resource_group): the
\* address resource of deploy_vm is named after the resource group
VmIpName == <<Group, 0>>

\* the rules create_standard_nsg_rules adds for vm
standard_rules_of(vm) ==
    LET keys == { <<vm, StandardRules[i].name>> : i \in DOMAIN StandardRules }
    IN  [k \in keys |->
            LET i == CHOOSE i \in DOMAIN StandardRules :
                        StandardRules[i].name = k[2]
            IN  StandardRules[i]]

\* the effect of the AzureApi call `call` of deploy_vm on the cloud (the
\* implementation is not part of the sources; creates are idempotent)
azure_call(call) ==
    /\ groups' = IF call = "create_resource_group"
                 THEN azure_ensure_created_resource_group(groups, Group)
                 ELSE groups
    /\ ips' = IF call = "create_public_ip" /\ ~Has(ips, VmIpName)
              THEN Put(ips, VmIpName, next_addr) ELSE ips
    /\ next_addr' = IF call = "create_public_ip" /\ ~Has(ips, VmIpName)
                    THEN next_addr + 1 ELSE next_addr
    /\ ip_address' = IF call = "create_public_ip" THEN ips'[VmIpName]
                     ELSE ip_address
    /\ UNCHANGED returned
    /\ dns' = IF call = "update_dns_record"
              THEN [dns EXCEPT !["node"] = {ip_address}] ELSE dns
    /\ disks' = IF call = "create_disk" /\ ~Has(disks, BootDisk)
                THEN Put(disks, BootDisk, 0) ELSE disks
    /\ nsgs' = IF call = "create_nsg" THEN nsgs \cup {Vm} ELSE nsgs
    /\ rules' = IF call = "create_standard_nsg_rules"
                THEN [k \in DOMAIN rules \cup DOMAIN standard_rules_of(Vm) |->
                         IF Has(rules, k) THEN rules[k]
                         ELSE standard_rules_of(Vm)[k]]
                ELSE rules
    /\ vms' = IF call = "create_vm" /\ ~Has(vms, Vm)
              THEN Put(vms, Vm, created_vm("azure", Get(ips, VmIpName, 0),
                                           NoDisk))
              ELSE vms
    /\ UNCHANGED images
    /\ created' = created \cup
          (CASE call = "create_resource_group" /\ Group \notin groups
                    -> {<<"group", Group>>}
             [] call = "create_public_ip" /\ ~Has(ips, VmIpName)
                    -> {<<"ip", VmIpName>>}
             [] call = "create_disk" /\ ~Has(disks, BootDisk)
                    -> {<<"disk", BootDisk>>}
             [] call = "create_nsg" /\ Vm \notin nsgs -> {<<"nsg", Vm>>}
             [] call = "create_standard_nsg_rules"
                    -> { <<"rule", k>> :
                           k \in DOMAIN standard_rules_of(Vm) \ DOMAIN rules }
             [] call = "create_vm" /\ ~Has(vms, Vm) -> {<<"vm", Vm>>}
             [] OTHER -> {})

\* one call of deploy_vm: it returns and deploy_vm goes on with the next
\* statement, or it raises and main() prints the error and exits
deploy_vm ==
    \E i \in DOMAIN DeployVmCalls :
        /\ pc[Orch] = DeployVmPc[i]
        /\ Log(DeployVmCalls[i])
        /\ \/ /\ azure_call(DeployVmCalls[i])
              /\ pc' = [pc EXCEPT ![Orch] =
                          IF i = Len(DeployVmCalls) THEN "vm_done"
                          ELSE DeployVmPc[i + 1]]
              /\ UNCHANGED <<err, faults, faulted, last_fault>>
           \/ /\ faults < MaxFaults
              /\ \E e \in CloudErrors :
                    /\ err' = [err EXCEPT ![Orch] =
                                 [at |-> DeployVmCalls[i], error |-> e]]
                    /\ last_fault' = [at |-> DeployVmCalls[i], error |-> e]
              /\ pc' = [pc EXCEPT ![Orch] = "vm_raised"]
              /\ faults' = faults + 1
              /\ faulted' = TRUE
              /\ UNCHANGED <<created, ip_address, returned, cloudVars>>
        /\ UNCHANGED <<cfg, mem, loaded, out, attempt, wait, prev_fail, prev_ip,
                       disk_existed, rule_idx, fileVars>>

\* deploy_vm is about to run for node 1 on Azure
InitVm ==
    /\ cfg = [p \in Procs |-> Config("azure", 1, FALSE, TRUE)]
    /\ pc = [p \in Procs |-> IF p = Orch THEN DeployVmPc[1] ELSE "idle"]
    /\ mem = [p \in Procs |-> EmptyMap]
    /\ out = [p \in Procs |-> NoOutput]
    /\ err = [p \in Procs |-> NoError]
    /\ InitRun
    /\ InitCloud
    /\ loaded = [p \in Procs |-> EmptyMap]
    /\ file \in InitialFiles
    /\ file0 = file
    /\ writes = [p \in Procs |-> 0]
    /\ tmp_files = {}
    /\ local_files = {Artifact, OtherArtifact}
    /\ op = NoOp

\* ------------------------------------------------------------------------
\* Specification of the two deployment tools: each behaviour is a run of
\* deploy_genesis_vm (with its reruns) or a run of deploy_vm
\* ------------------------------------------------------------------------
InitTools == Init \/ InitVm

NextTools == Next \/ deploy_vm

SpecTools == InitTools /\ [][NextTools]_vars

\* ------------------------------------------------------------------------
\* DNS convergence: update_dns_record called on a record that already holds
\* addresses
\* ------------------------------------------------------------------------
\* addresses a record may hold
MaxAddr == 3

Records == {"node", "metrics"}

\* update_dns_record(config, ip_address, remove_old): it completes, or one
\* of its remove_dns_ip / add_dns_ip calls raises after some of the previous
\* addresses were removed
update_dns_record_call ==
    /\ StoreIdle
    /\ \E record \in Records, ip \in 1..MaxAddr, remove_old \in BOOLEAN :
          LET arg == <<record, IF remove_old THEN "remove_old"
                               ELSE "keep_old">>
              previous == [previous |-> dns[record]]
          IN  /\ ip_address' = ip
              /\ \/ /\ dns' = [dns EXCEPT ![record] =
                                 dns_record_after(dns[record], ip,
                                                  remove_old)]
                    /\ op' = OpReturned("update_dns_record", arg, "returned",
                                        previous)
                 \/ \E e \in CloudErrors, removed \in SUBSET dns[record] :
                       /\ removed # {} => remove_old
                       /\ dns' = [dns EXCEPT ![record] = @ \ removed]
                       /\ op' = OpOutcome("update_dns_record", arg, "raised",
                                          e, previous)
    /\ UNCHANGED <<procVars, calls, attempt, wait, faults, faulted, last_fault,
                   prev_fail, prev_ip, created, disk_existed, rule_idx, returned,
                   groups, ips, next_addr, images, disks, rules, nsgs, vms,
                   file, file0, writes, local_files, tmp_files>>

InitDns ==
    /\ cfg = [p \in Procs |-> Config("azure", 1, FALSE, TRUE)]
    /\ pc = [p \in Procs |-> "idle"]
    /\ mem = [p \in Procs |-> EmptyMap]
    /\ loaded = [p \in Procs |-> EmptyMap]
    /\ out = [p \in Procs |-> NoOutput]
    /\ err = [p \in Procs |-> NoError]
    /\ InitRun
    /\ groups = {Group}
    /\ ips = EmptyMap
    /\ next_addr = 1
    /\ dns \in [Records -> SUBSET (1..MaxAddr)]
    /\ images = {}
    /\ disks = EmptyMap
    /\ rules = EmptyMap
    /\ nsgs = {}
    /\ vms = EmptyMap
    /\ file = FileOf("doc", EmptyMap)
    /\ file0 = file
    /\ writes = [p \in Procs |-> 0]
    /\ tmp_files = {}
    /\ local_files = {Artifact, OtherArtifact}
    /\ op = NoOp

NextDns == update_dns_record_call

SpecDns == InitDns /\ [][NextDns]_vars

\* ------------------------------------------------------------------------
\* Artifact names (utils/artifact.py).  Here a name is the sequence of its
\* characters
\* ------------------------------------------------------------------------
\* \d{14}
TIMESTAMP_LEN == 14

Digits == {"0", "1", "2", "3", "4", "5", "6", "7", "8", "9"}

\* int(c) of a digit
DigitValue ==
    "0" :> 0 @@ "1" :> 1 @@ "2" :> 2 @@ "3" :> 3 @@ "4" :> 4 @@ "5" :> 5
    @@ "6" :> 6 @@ "7" :> 7 @@ "8" :> 8 @@ "9" :> 9

\* all(a.isdigit() for a in text)
all_digits(text) == \A i \in DOMAIN text : text[i] \in Digits

\* `part in text`
Contains(text, part) ==
    \E i \in 1..(Len(text) - Len(part) + 1) :
        SubSeq(text, i, i + Len(part) - 1) = part

\* text.endswith(suffix)
EndsWith(text, suffix) ==
    /\ Len(text) >= Len(suffix)
    /\ SubSeq(text, Len(text) - Len(suffix) + 1, Len(text)) = suffix

\* the positions of text at which 14 consecutive digits start
Windows(text) ==
    { i \in 1..(Len(text) - TIMESTAMP_LEN + 1) :
        all_digits(SubSeq(text, i, i + TIMESTAMP_LEN - 1)) }

Least(S) == CHOOSE x \in S : \A y \in S : x <= y

Greatest(S) == CHOOSE x \in S : \A y \in S : x >= y

\* an extraction that takes the last 14 consecutive digits of the name
_extract_timestamp_last(artifact) ==
    IF Windows(artifact) = {}
    THEN [ok |-> FALSE, error |-> "ValueError", timestamp |-> << >>]
    ELSE [ok |-> TRUE, error |-> "none",
          timestamp |-> SubSeq(artifact, Greatest(Windows(artifact)),
                               Greatest(Windows(artifact))
                                   + TIMESTAMP_LEN - 1)]

\* _extract_timestamp: re.search(r".*?(\d{14}).*", artifact) matches at the
\* leftmost place where 14 consecutive digits start and group(1) is those
\* digits; without a match ValueError is raised
_extract_timestamp(artifact) ==
    IF Windows(artifact) = {}
    THEN [ok |-> FALSE, error |-> "ValueError", timestamp |-> << >>]
    ELSE [ok |-> TRUE, error |-> "none",
          timestamp |-> SubSeq(artifact, Least(Windows(artifact)),
                               Least(Windows(artifact)) + TIMESTAMP_LEN - 1)]

\* int(text) of a string of digits
RECURSIVE Number(_)
Number(text) ==
    IF text = << >> THEN 0
    ELSE 10 * Number(SubSeq(text, 1, Len(text) - 1))
         + DigitValue[text[Len(text)]]

\* datetime: leap years, days of a month, days before a year and a month
is_leap(year) ==
    year % 4 = 0 /\ (year % 100 # 0 \/ year % 400 = 0)

days_in_month(year, month) ==
    IF month = 2 THEN (IF is_leap(year) THEN 29 ELSE 28)
    ELSE IF month \in {4, 6, 9, 11} THEN 30 ELSE 31

days_before_year(year) ==
    LET y == year - 1 IN
        y * 365 + (y \div 4) - (y \div 100) + (y \div 400)

RECURSIVE days_before_month(_, _)
days_before_month(year, month) ==
    IF month = 1 THEN 0
    ELSE days_before_month(year, month - 1) + days_in_month(year, month - 1)

\* date(year, month, day).toordinal()
ymd2ord(year, month, day) ==
    days_before_year(year) + days_before_month(year, month) + day

\* datetime.datetime.strptime(ts_string, "%Y%m%d%H%M%S"): the fields of a
\* 14-digit string, ValueError when they are not a date and a time of day
strptime(ts_string) ==
    LET year == Number(SubSeq(ts_string, 1, 4))
        month == Number(SubSeq(ts_string, 5, 6))
        day == Number(SubSeq(ts_string, 7, 8))
        hour == Number(SubSeq(ts_string, 9, 10))
        minute == Number(SubSeq(ts_string, 11, 12))
        second == Number(SubSeq(ts_string, 13, 14))
    IN  [ok |-> /\ year >= 1
                /\ month \in 1..12
                /\ day >= 1
                /\ month \in 1..12 => day <= days_in_month(year, month)
                /\ hour <= 23 /\ minute <= 59 /\ second <= 59,
         year |-> year, month |-> month, day |-> day,
         hour |-> hour, minute |-> minute, second |-> second]

\* int(dt.timestamp()) of a naive datetime, the local time zone being UTC
timestamp(dt) ==
    (ymd2ord(dt.year, dt.month, dt.day) - ymd2ord(1970, 1, 1)) * 86400
    + dt.hour * 3600 + dt.minute * 60 + dt.second

\* an artifact_timestamp that reads the first 14 digits of the name, whether
\* they are consecutive or not
artifact_timestamp_any_digits(artifact) ==
    LET digits == SelectSeq(artifact, LAMBDA c : c \in Digits)
        dt == strptime(SubSeq(digits, 1, TIMESTAMP_LEN))
    IN  IF Len(digits) < TIMESTAMP_LEN \/ ~dt.ok
        THEN [ok |-> FALSE, error |-> "ValueError", epoch |-> 0]
        ELSE [ok |-> TRUE, error |-> "none", epoch |-> timestamp(dt)]

\* artifact_timestamp(artifact)
artifact_timestamp(artifact) ==
    LET ts_string == _extract_timestamp(artifact)
        dt == strptime(ts_string.timestamp)
    IN  IF ~ts_string.ok \/ ~dt.ok
        THEN [ok |-> FALSE, error |-> "ValueError", epoch |-> 0]
        ELSE [ok |-> TRUE, error |-> "none", epoch |-> timestamp(dt)]

\* the texts the modelled names are made of
DevTag == <<"-", "d", "e", "v", "-">>
VhdExt == <<".", "v", "h", "d">>
TarGzExt == <<".", "t", "a", "r", ".", "g", "z">>
EfiExt == <<".", "e", "f", "i">>
LegacyPrefix ==
    <<"c", "v", "m", "-", "i", "m", "a", "g", "e", "-", "a", "z", "u", "r",
      "e", "-", "t", "d", "x", ".", "r", "o", "o", "t", "f", "s">>
LegacyExt == <<".", "w", "i", "c", ".", "v", "h", "d">>

\* prefixes and suffixes of the modelled names
DevPrefix ==
    <<"s", "e", "i", "s", "m", "i", "c", "-", "d", "e", "v", "-", "a", "z",
      "u", "r", "e", "-">>
PlainPrefix ==
    <<"s", "e", "i", "s", "m", "i", "c", "-", "a", "z", "u", "r", "e", "-">>
OldPrefix ==
    <<"r", "o", "o", "t", "f", "s", "-">>
VersionPrefix ==
    <<"v", "2", "-">>
LogExt ==
    <<".", "l", "o", "g">>
VersionExt ==
    <<".", "v", "3">>

\* the order in which _artifact_from_timestamp looks for an extension
PreferredExts == <<VhdExt, TarGzExt, EfiExt>>

\* the matches with the first extension of exts that some match has, every
\* match when none has one of them
RECURSIVE by_extension(_, _)
by_extension(matches, exts) ==
    IF exts = << >> THEN matches
    ELSE LET with_ext == { m \in matches : EndsWith(m, Head(exts)) }
         IN  IF with_ext # {} THEN with_ext
             ELSE by_extension(matches, Tail(exts))

\* a resolution that ignores the dev flag
by_dev_ignored(matches, dev) == matches

\* the matches _artifact_from_timestamp keeps for dev / not dev
by_dev(matches, dev) ==
    LET dev_matches == { m \in matches : Contains(m, DevTag) }
        non_dev_matches == matches \ dev_matches
    IN  IF dev
        THEN (IF dev_matches # {} THEN dev_matches ELSE matches)
        ELSE (IF non_dev_matches # {} THEN non_dev_matches ELSE matches)

\* _artifact_from_timestamp(timestamp, home, dev): the names it may return.
\* glob.glob lists the matches in the order of the directory, which the
\* program does not control: the first match with the preferred extension
\* is any of them
_artifact_from_timestamp(files, ts, dev) ==
    LET matches == { f \in files : Contains(f, ts) }
    IN  IF matches # {}
        THEN by_extension(by_dev(matches, dev), PreferredExts)
        ELSE { LegacyPrefix \o <<"-">> \o ts \o LegacyExt }

\* a parse_artifact that hands every argument with a timestamp in it to the
\* artifacts directory
is_short_form_loose(artifact_arg) == _extract_timestamp(artifact_arg).ok

\* len(artifact_arg) == 14 and all(a.isdigit() for a in artifact_arg)
is_short_form(artifact_arg) ==
    Len(artifact_arg) = TIMESTAMP_LEN /\ all_digits(artifact_arg)

\* parse_artifact(artifact_arg, home, dev): its possible outcomes; None and
\* the empty string are << >>, has_home tells whether home was given
parse_artifact(artifact_arg, has_home, dev, files) ==
    IF artifact_arg = << >>
    THEN {[result |-> "None", error |-> "none", artifact |-> << >>]}
    ELSE IF is_short_form(artifact_arg)
    THEN IF ~has_home
         THEN {[result |-> "raised", error |-> "ValueError",
                artifact |-> << >>]}
         ELSE {[result |-> "returned", error |-> "none", artifact |-> a] :
                  a \in _artifact_from_timestamp(files, artifact_arg, dev)}
    ELSE IF ~_extract_timestamp(artifact_arg).ok
    THEN {[result |-> "raised", error |-> "ValueError", artifact |-> << >>]}
    ELSE {[result |-> "returned", error |-> "none",
           artifact |-> artifact_arg]}

\* build timestamps: the two of the docstrings, a leap day, and three that
\* are no date (month 13, 29 February 2025, second 60)
Stamp1 == <<"2", "0", "2", "5", "0", "1", "1", "0", "1", "2", "0", "0", "0", "0">>
Stamp2 == <<"2", "0", "2", "4", "1", "2", "0", "2", "2", "0", "2", "9", "3", "5">>
StampLeap == <<"2", "0", "2", "4", "0", "2", "2", "9", "2", "3", "5", "9", "5", "9">>
StampMonth13 == <<"2", "0", "2", "5", "1", "3", "1", "0", "1", "2", "0", "0", "0", "0">>
StampNoLeap == <<"2", "0", "2", "5", "0", "2", "2", "9", "0", "0", "0", "0", "0", "0">>
StampSecond60 == <<"2", "0", "2", "5", "0", "1", "1", "0", "1", "2", "0", "0", "6", "0">>

\* digit runs of the modelled names: timestamps, 13 digits, 15 digits, none
Runs ==
    {Stamp1, Stamp2, StampLeap, StampMonth13, StampNoLeap, StampSecond60,
     SubSeq(Stamp1, 1, TIMESTAMP_LEN - 1), Stamp1 \o <<"7">>, << >>}

Prefixes == {<< >>, DevPrefix, OldPrefix, VersionPrefix}

Suffixes == {<< >>, VhdExt, LegacyExt, VersionExt}

\* the names the functions are applied to: one run of digits between a
\* prefix and a suffix, or two timestamps
Names ==
    { p \o r \o x : p \in Prefixes, r \in Runs, x \in Suffixes }
    \cup { p \o Stamp1 \o <<"-">> \o Stamp2 \o x :
             p \in Prefixes, x \in {VhdExt, << >>} }
    \cup { p \o Stamp2 \o <<"_">> \o Stamp1 \o x :
             p \in Prefixes, x \in {VhdExt, << >>} }

\* files that may be in the artifacts directory
DirFiles ==
    { DevPrefix \o Stamp1 \o VhdExt,
      PlainPrefix \o Stamp1 \o VhdExt,
      DevPrefix \o Stamp1 \o TarGzExt,
      PlainPrefix \o Stamp1 \o EfiExt,
      PlainPrefix \o Stamp1 \o LogExt }

\* no function of the module was called yet
NotCalled == op = NoOp

\* _extract_timestamp(artifact) is called
call_extract_timestamp ==
    /\ NotCalled
    /\ \E artifact \in Names :
          LET r == _extract_timestamp(artifact) IN
              op' = OpOutcome("_extract_timestamp", <<"name", artifact>>,
                              IF r.ok THEN "returned" ELSE "raised",
                              r.error, [timestamp |-> r.timestamp])
    /\ UNCHANGED <<procVars, runVars, cloudVars, file, file0, writes,
                   local_files, tmp_files>>

\* artifact_timestamp(artifact) is called
call_artifact_timestamp ==
    /\ NotCalled
    /\ \E artifact \in Names :
          LET r == artifact_timestamp(artifact) IN
              op' = OpOutcome("artifact_timestamp", <<"name", artifact>>,
                              IF r.ok THEN "returned" ELSE "raised",
                              r.error, [epoch |-> r.epoch])
    /\ UNCHANGED <<procVars, runVars, cloudVars, file, file0, writes,
                   local_files, tmp_files>>

\* parse_artifact(artifact_arg, home, dev) is called
call_parse_artifact ==
    /\ NotCalled
    /\ \E artifact_arg \in Names, has_home \in BOOLEAN, dev \in BOOLEAN :
          \E r \in parse_artifact(artifact_arg, has_home, dev, local_files) :
              op' = OpOutcome("parse_artifact", <<"name", artifact_arg>>,
                              r.result, r.error,
                              [artifact |-> r.artifact, has_home |-> has_home,
                               dev |-> dev])
    /\ UNCHANGED <<procVars, runVars, cloudVars, file, file0, writes,
                   local_files, tmp_files>>

\* the tools are started with some artifacts directory
InitArtifact ==
    /\ cfg = [p \in Procs |-> Config("azure", 1, FALSE, TRUE)]
    /\ pc = [p \in Procs |-> "idle"]
    /\ mem = [p \in Procs |-> EmptyMap]
    /\ loaded = [p \in Procs |-> EmptyMap]
    /\ out = [p \in Procs |-> NoOutput]
    /\ err = [p \in Procs |-> NoError]
    /\ InitRun
    /\ DeployedCloud
    /\ file = FileOf("doc", EmptyMap)
    /\ file0 = file
    /\ writes = [p \in Procs |-> 0]
    /\ tmp_files = {}
    /\ local_files \in SUBSET DirFiles
    /\ op = NoOp

NextArtifact ==
    \/ call_extract_timestamp
    \/ call_artifact_timestamp
    \/ call_parse_artifact

SpecArtifact == InitArtifact /\ [][NextArtifact]_vars

\* ------------------------------------------------------------------------
\* wait_for_extended_operation (cloud/gcp/api.py): polling an asynchronous
\* operation of the provider.  Time is in seconds
\* ------------------------------------------------------------------------
\* time.sleep(5)
POLL_INTERVAL == 5

\* timeout: int = 600
DEFAULT_TIMEOUT == 600

\* seconds a call of operation.done() may take
MaxLatency == 1

\* time.time() when the wait starts
StartTime == 100

\* the timeouts a call site may pass
Timeouts == {0, 7, DEFAULT_TIMEOUT}

\* seconds after the start of the wait at which the operation completes
DoneTimes == {0, 3, 12, DEFAULT_TIMEOUT + 3}

\* a timeout check that fires two polling intervals late
timed_out_late(now, start_time, timeout) ==
    now - start_time > timeout + 2 * POLL_INTERVAL

\* if time.time() - start_time > timeout: raise TimeoutError
timed_out(now, start_time, timeout) == now - start_time > timeout

\* a wait that returns whatever the status of the operation
after_loop_ignoring_error(failed) == [pc |-> "returned", error |-> "none"]

\* if operation.error: raise RuntimeError
after_loop(failed) ==
    IF failed THEN [pc |-> "raised", error |-> "RuntimeError"]
    ELSE [pc |-> "returned", error |-> "none"]

U_wait == <<procVars, calls, attempt, faults, faulted, last_fault, prev_fail,
            prev_ip, created, disk_existed, rule_idx, ip_address, returned, cloudVars,
            fileVars>>

\* seconds since the wait started
Elapsed == wait.now - wait.start_time

\* wait_for_extended_operation(operation, operation_name, timeout) is
\* called for an operation that completes at some time, with or without an
\* error, or never: start_time = time.time()
wait_for_extended_operation ==
    /\ wait.pc = "idle"
    /\ \E timeout \in Timeouts, completes \in BOOLEAN, done_at \in DoneTimes,
          failed \in BOOLEAN :
          /\ ~completes => (done_at = 0 /\ ~failed)
          /\ wait' = [pc |-> "loop", error |-> "none", timeout |-> timeout,
                      start_time |-> StartTime, now |-> StartTime,
                      completes |-> completes, done_at |-> done_at,
                      failed |-> failed, done |-> FALSE, slept_at |-> -1]
    /\ UNCHANGED U_wait

\* while not operation.done(): if time.time() - start_time > timeout: raise;
\* after the loop: if operation.error: raise
operation_done ==
    /\ wait.pc = "loop"
    /\ \E latency \in 0..MaxLatency :
          LET now == wait.now + latency
              done == wait.completes /\ now - wait.start_time >= wait.done_at
          IN  wait' =
                IF done
                THEN [wait EXCEPT !.now = now, !.done = TRUE,
                                  !.pc = after_loop(wait.failed).pc,
                                  !.error = after_loop(wait.failed).error]
                ELSE IF timed_out(now, wait.start_time, wait.timeout)
                THEN [wait EXCEPT !.now = now, !.pc = "raised",
                                  !.error = "TimeoutError"]
                ELSE [wait EXCEPT !.now = now, !.pc = "sleep"]
    /\ UNCHANGED U_wait

\* time.sleep(5)
sleep ==
    /\ wait.pc = "sleep"
    /\ wait' = [wait EXCEPT !.now = @ + POLL_INTERVAL, !.slept_at = Elapsed,
                            !.pc = "loop"]
    /\ UNCHANGED U_wait

InitWait ==
    /\ cfg = [p \in Procs |-> Config("gcp", 1, FALSE, TRUE)]
    /\ pc = [p \in Procs |-> "idle"]
    /\ mem = [p \in Procs |-> EmptyMap]
    /\ loaded = [p \in Procs |-> EmptyMap]
    /\ out = [p \in Procs |-> NoOutput]
    /\ err = [p \in Procs |-> NoError]
    /\ InitRun
    /\ DeployedCloud
    /\ file = FileOf("doc", EmptyMap)
    /\ file0 = file
    /\ writes = [p \in Procs |-> 0]
    /\ tmp_files = {}
    /\ local_files = {Artifact}
    /\ op = NoOp

NextWait ==
    \/ wait_for_extended_operation
    \/ operation_done
    \/ sleep

SpecWait == InitWait /\ [][NextWait]_vars

\* the interpreter keeps running the call
SpecWaitLive == SpecWait /\ WF_vars(NextWait)

\* ------------------------------------------------------------------------
\* Properties
\* ------------------------------------------------------------------------
Called == { calls[i] : i \in DOMAIN calls }

Count(step) == Cardinality({ i \in DOMAIN calls : calls[i] = step })

\* the stages of the genesis pipeline
PipelineSteps ==
    {"check_dependencies", "ensure_created_resource_group",
     "get_or_create_node_ip", "update_dns_record", "disk_exists",
     "create_disk", "upload_disk", "create_nsg", "create_standard_nsg_rules",
     "create_data_disk", "create_vm", "attach_data_disk",
     "update_deploy_metadata"}

IsPipelineStep(step) == step \in PipelineSteps

\* the order of the stages; the DNS stage updates the two records of the node
ExpectedOrder(cloud, existed) ==
    <<"check_dependencies", "ensure_created_resource_group",
      "get_or_create_node_ip", "update_dns_record", "update_dns_record",
      "disk_exists">>
    \o (IF existed THEN << >> ELSE <<"create_disk">>)
    \o <<"upload_disk", "create_nsg", "create_standard_nsg_rules",
         "create_data_disk", "create_vm">>
    \o (IF cloud = "azure" THEN <<"attach_data_disk">> ELSE << >>)
    \o <<"update_deploy_metadata">>

\* deploy_genesis_vm ran to its end without --ip-only
Completed == pc[Orch] = "done" /\ ~cfg[Orch].ip_only

\* C1: in every completed run of deploy_genesis_vm without --ip-only the
\* stages were invoked once each, in the order check_dependencies,
\* ensure_created_resource_group, get_or_create_node_ip, DNS update, boot
\* disk (exists-check, create if absent, upload), create_nsg,
\* create_standard_nsg_rules, create_data_disk, create_vm, attach_data_disk
\* (Azure only), update_deploy_metadata
C1_PipelineOrder ==
    Completed =>
        SelectSeq(calls, IsPipelineStep) = ExpectedOrder(Cloud, disk_existed)

C1_Witness ==
    /\ Completed
    /\ Cloud = "azure"
    /\ "attach_data_disk" \in Called
    /\ "create_disk" \in Called

\* the cloud calls of deploy_image
DeployImageCloudSteps ==
    {"disk_exists", "create_disk", "upload_disk", "create_nsg",
     "add_nsg_rule", "create_data_disk", "create_vm", "attach_data_disk",
     "get_vm_ip"}

\* Deployer.deploy returned a DeployOutput in the current run
DeployReturned == out[Orch].public_ip # 0

\* the document records the deployment of process p under its cloud
Recorded(doc, p) ==
    /\ Has(doc, "resources")
    /\ Has(doc["resources"], cfg[p].cloud)
    /\ Has(doc["resources"][cfg[p].cloud], cfg[p].name)
    /\ doc["resources"][cfg[p].cloud][cfg[p].name]
           = vm_metadata(cfg[p], out[p].public_ip, out[p].data_disk_name)

\* C2: when a run failed at a cloud call of deploy_image and the pipeline is
\* run again with the same inputs and no call failing for an outside reason,
\* the second run does not fail at a cloud call of deploy_image; it converges
C2_RetryConverges ==
    (/\ attempt > 1
     /\ prev_fail \in DeployImageCloudSteps
     /\ ~faulted
     /\ pc[Orch] = "raised")
        => err[Orch].at \notin DeployImageCloudSteps

C4_FailurePropagates ==
    (pc[Orch] = "raised" /\ err[Orch].at \in DeployImageCloudSteps) =>
        /\ err[Orch] = last_fault
        /\ calls[Len(calls)] = err[Orch].at
        /\ Count(err[Orch].at)
               = (IF err[Orch].at = "add_nsg_rule" THEN rule_idx ELSE 1)
        /\ \A r \in created : Exists(r)

C4_Witness ==
    /\ pc[Orch] = "raised"
    /\ err[Orch].at = "create_vm"
    /\ err[Orch].error \in CloudErrors
    /\ <<"disk", DataDisk>> \in created
    /\ <<"disk", BootDisk>> \in created

C6_UpsertFrame ==
    Completed =>
        LET before == file0.doc
            after == file.doc
            rb == Get(before, "resources", EmptyMap)
            bucket == Get(rb, Cloud, EmptyMap)
        IN  /\ file.kind = "doc"
            /\ DOMAIN after = DOMAIN before \cup {"resources"}
            /\ \A k \in DOMAIN before \ {"resources"} : after[k] = before[k]
            /\ Cloud \in DOMAIN after["resources"]
            /\ \A c \in DOMAIN rb \ {Cloud} :
                  /\ Has(after["resources"], c)
                  /\ after["resources"][c] = rb[c]
            /\ \A c \in DOMAIN after["resources"] \ (DOMAIN rb \cup {Cloud}) :
                  after["resources"][c] = EmptyMap
            /\ DOMAIN after["resources"][Cloud] = DOMAIN bucket \cup {Vm}
            /\ \A v \in DOMAIN bucket \ {Vm} :
                  after["resources"][Cloud][v] = bucket[v]
            /\ Recorded(after, Orch)

C6_Witness ==
    /\ Completed
    /\ file0.kind = "doc"
    /\ Recorded(file.doc, Orch)
    /\ ~Recorded(file0.doc, Orch)
    /\ Has(file0.doc, "resources")
    /\ Has(file0.doc["resources"], Cloud)
    /\ {VmName(1), VmName(2)} \subseteq DOMAIN file0.doc["resources"][Cloud]
    /\ Vm = VmName(1)

\* C7: when two processes record two different VMs and each loaded the file
\* before the write of the other was in it, the file they leave behind does
\* not hold both entries: one update is lost
C7_LostUpdate ==
    (/\ pc[1] = "done" /\ pc[2] = "done"
     /\ file.kind = "doc"
     /\ ~Recorded(loaded[1], 2)
     /\ ~Recorded(loaded[2], 1))
        => ~(Recorded(file.doc, 1) /\ Recorded(file.doc, 2))

C7_Witness ==
    /\ pc[1] = "done" /\ pc[2] = "done"
    /\ file.kind = "doc"
    /\ Recorded(file.doc, 2)
    /\ ~Recorded(file.doc, 1)
    /\ cfg[1].cloud = cfg[2].cloud

\* C8: the metadata file always holds a complete document, whatever the
\* processes writing it are doing and wherever they were killed
C8_NeverPartial == file.kind = "doc"

\* C9: when the metadata file is missing or malformed, every operation that
\* loads it raises the error of load_metadata (FileNotFoundError or
\* JSONDecodeError), update_deploy_metadata does not get past the load, and
\* the file is neither created nor written
C9_LoadFatal ==
    file0.kind # "doc" =>
        LET e == IF file0.kind = "missing" THEN "FileNotFoundError"
                 ELSE "JSONDecodeError"
        IN  /\ file = file0
            /\ writes[Orch] = 0
            /\ op.name # "none" => (op.result = "raised" /\ op.error = e)
            /\ pc[Orch] \in {"idle", "update_deploy_metadata", "raised"}
            /\ pc[Orch] = "raised" =>
                   err[Orch] = [at |-> "load_metadata", error |-> e]

C9_Witness ==
    /\ file0.kind = "malformed"
    /\ pc[Orch] = "raised"
    /\ op.name = "delete_artifact"
    /\ op.result = "raised"

\* C10, as stated: starting without a metadata file, a deployment whose VM
\* was created and whose deploy returned ends with the file holding the
\* entry of the VM
C10_CreatedFromMissingFile ==
    (/\ file0.kind = "missing"
     /\ DeployReturned
     /\ pc[Orch] \in Terminal)
        => (file.kind = "doc" /\ Recorded(file.doc, Orch))

\* C10, amended: what is created lazily is the resources section of an
\* existing document.  Starting from a well-formed file, a completed deploy
\* leaves a document with the entry of the VM under its cloud, and with a
\* bucket for each provider when the document had no resources key;
\* starting without a file, a deploy that returned ends in the
\* FileNotFoundError of load_metadata and the file is still missing
C10_LazyResourcesOnly ==
    /\ (file0.kind = "doc" /\ Completed) =>
          /\ file.kind = "doc"
          /\ Recorded(file.doc, Orch)
          /\ ~Has(file0.doc, "resources") =>
                 DOMAIN file.doc["resources"] = Clouds
    /\ file0.kind = "missing" =>
          /\ file = MissingFile
          /\ (DeployReturned /\ pc[Orch] \in Terminal) =>
                 /\ pc[Orch] = "raised"
                 /\ err[Orch] = [at |-> "load_metadata",
                                 error |-> "FileNotFoundError"]

C10_Witness ==
    /\ file0.kind = "missing"
    /\ DeployReturned
    /\ Has(vms, Vm)
    /\ pc[Orch] = "raised"
    /\ err[Orch].at = "load_metadata"

\* the VM entries of the document a provider filter is expected to return:
\* those whose vm.cloud is the provider, keyed by VM name
RecordedUnder(metadata, cloud) ==
    LET resources == Get(metadata, "resources", EmptyMap)
        names == { v \in UNION { DOMAIN resources[c] : c \in DOMAIN resources } :
                     \E c \in DOMAIN resources :
                        /\ Has(resources[c], v)
                        /\ resources[c][v]["vm"]["cloud"] = cloud }
    IN  [v \in names |->
            LET c == CHOOSE c \in DOMAIN resources :
                        /\ Has(resources[c], v)
                        /\ resources[c][v]["vm"]["cloud"] = cloud
            IN  resources[c][v]]

\* C11: whenever update_deploy_metadata has completed its write, the
\* resources object of the document has both provider buckets, azure and gcp
C11_BothBuckets ==
    (pc[Orch] = "done" /\ writes[Orch] = 1 /\ file.kind = "doc") =>
        /\ Has(file.doc, "resources")
        /\ Clouds \subseteq DOMAIN file.doc["resources"]

\* C12: a remove_vm_from_metadata(name) that returns leaves no provider
\* bucket with an entry for name
C12_RemoveVm ==
    [][(remove_vm_from_metadata /\ file.kind = "doc")
          => clouds_of(file'.doc, op'.arg[2]) = {}]_vars

\* C13: filter_resources_by_cloud(home, cloud) returns exactly the VM
\* entries of the document whose vm.cloud is cloud, keyed by VM name
C13_FilterByCloud ==
    [][(filter_resources_by_cloud /\ file.kind = "doc")
          => op'.value = RecordedUnder(file.doc, op'.arg[2])]_vars

C16_DataDiskContract ==
    DeployReturned =>
        /\ Has(disks, DataDisk)
        /\ disks[DataDisk] = DATA_DISK_SIZE_GB
        /\ Has(vms, Vm)
        /\ vms[Vm].data_disk = DataDisk
        /\ vms[Vm].lun = DATA_DISK_LUN

C18_MissingImage ==
    Artifact \notin local_files =>
        /\ Called \cap DeployImageCloudSteps = {}
        /\ \A r \in created : r[1] \in {"group", "ip"}
        /\ "deploy_image" \in Called =>
              /\ pc[Orch] = "raised"
              /\ err[Orch] = [at |-> "deploy_image",
                              error |-> "FileNotFoundError"]
              /\ calls[Len(calls)] = "deploy_image"

C18_Witness ==
    /\ Artifact \notin local_files
    /\ pc[Orch] = "raised"
    /\ err[Orch] = [at |-> "deploy_image", error |-> "FileNotFoundError"]
    /\ disks = EmptyMap
    /\ vms = EmptyMap

\* C19: in every run of deploy_genesis_vm and of deploy_vm the first cloud
\* call is check_dependencies, and a run in which check_dependencies raised
\* ended with that error after that single call, having created nothing
C19_DependenciesFirst ==
    /\ Len(calls) > 0 => calls[1] = "check_dependencies"
    /\ (pc[Orch] \in {"raised", "vm_raised"}
        /\ err[Orch].at = "check_dependencies") =>
          /\ calls = <<"check_dependencies">>
          /\ err[Orch] = last_fault
          /\ created = {}

C19_Witness ==
    /\ pc[Orch] = "raised"
    /\ err[Orch].at = "check_dependencies"
    /\ err[Orch].error \in CloudErrors
    /\ groups = {}
    /\ ips = EmptyMap

\* C20: after update_dns_record(config, ip, remove_old) has completed, the
\* A-record set of the domain is exactly {ip} when remove_old is set, and
\* the previous set with ip added when it is not
C20_DnsConverges ==
    (op.name = "update_dns_record" /\ op.result = "returned") =>
        LET record == op.arg[1]
            previous == op.value["previous"]
        IN  IF op.arg[2] = "remove_old"
            THEN dns[record] = {ip_address}
            ELSE dns[record] = previous \cup {ip_address}

C20_Witness ==
    /\ op.name = "update_dns_record"
    /\ op.result = "returned"
    /\ op.arg[2] = "remove_old"
    /\ Cardinality(op.value["previous"] \ {ip_address}) = 2
    /\ dns[op.arg[1]] = {ip_address}

C22_DeleteExactly ==
    [][(/\ delete_artifact
        /\ file.kind = "doc"
        /\ \/ deployed_to(file.doc, op'.arg[2]) = {}
           \/ (Has(op'.value, "answer")
               /\ strip_lower(op'.value["answer"]) = "y"))
          => LET artifact == op'.arg[2]
                 matching == { f \in local_files : f[2] = artifact[2] }
                 before == Get(file.doc, "artifacts", EmptyMap)
                 after == Get(file'.doc, "artifacts", EmptyMap)
             IN  IF matching = {}
                 THEN file' = file /\ local_files' = local_files
                 ELSE /\ local_files' = local_files \ matching
                      /\ file'.kind = "doc"
                      /\ DOMAIN file'.doc = DOMAIN file.doc
                      /\ \A k \in DOMAIN file.doc \ {"artifacts"} :
                            file'.doc[k] = file.doc[k]
                      /\ DOMAIN after = DOMAIN before \ {artifact}
                      /\ \A a \in DOMAIN after : after[a] = before[a]]_vars

C22_Witness ==
    /\ op.name = "delete_artifact"
    /\ op.result = "deleted"
    /\ op.arg[2] = OtherArtifact
    /\ op.value = [answer |-> "Y"]
    /\ local_files = {Artifact, <<"seismic-dev-gcp", 2, ".tar.gz">>}
    /\ Has(file0.doc, "artifacts")
    /\ Has(file0.doc["artifacts"], OtherArtifact)
    /\ file.kind = "doc"
    /\ Has(file.doc, "artifacts")
    /\ ~Has(file.doc["artifacts"], OtherArtifact)

\* the name holds exactly one run of 14 consecutive digits: there is one
\* place at which 14 consecutive digits start
ExactlyOneRun(name) == Cardinality(Windows(name)) = 1

\* the 14 digits of a name with exactly one run
TheRun(name) ==
    LET i == CHOOSE i \in Windows(name) : TRUE
    IN  SubSeq(name, i, i + TIMESTAMP_LEN - 1)

\* C23: for a name with exactly one run of 14 consecutive digits that are a
\* valid YYYYMMDDHHMMSS, artifact_timestamp returns the epoch value of those
\* digits, and every other such name with the same digits gives that value
C23_SameEpoch ==
    (/\ op.name = "artifact_timestamp"
     /\ ExactlyOneRun(op.arg[2])
     /\ strptime(TheRun(op.arg[2])).ok)
        => /\ op.result = "returned"
           /\ op.value["epoch"] = timestamp(strptime(TheRun(op.arg[2])))
           /\ \A other \in Names :
                 (ExactlyOneRun(other) /\ TheRun(other) = TheRun(op.arg[2]))
                    => /\ artifact_timestamp(other).ok
                       /\ artifact_timestamp(other).epoch = op.value["epoch"]

\* "v2-20250110120000.v3" gives the epoch value of 2025-01-10T12:00:00
C23_Witness ==
    /\ op.name = "artifact_timestamp"
    /\ op.arg[2] = VersionPrefix \o Stamp1 \o VersionExt
    /\ op.result = "returned"
    /\ op.value["epoch"] = 1736510400
    /\ artifact_timestamp(DevPrefix \o Stamp1 \o VhdExt).epoch = 1736510400

\* the calls that parse a name by _extract_timestamp: _extract_timestamp and
\* artifact_timestamp, and parse_artifact on any argument but the empty one
\* and a bare timestamp
ParsesName ==
    \/ op.name \in {"_extract_timestamp", "artifact_timestamp"}
    \/ /\ op.name = "parse_artifact"
       /\ op.arg[2] # << >>
       /\ ~(Len(op.arg[2]) = TIMESTAMP_LEN /\ all_digits(op.arg[2]))

\* C24, as stated: parsing a name succeeds only when the name holds exactly
\* one run of 14 digits; it fails for a name with no such run, with more
\* than one, or with a longer run of digits
C24_ExactlyOneRunOrFail ==
    (ParsesName /\ op.result = "returned") => ExactlyOneRun(op.arg[2])

\* C24, amended: parsing a name raises ValueError when the name holds no run
\* of 14 consecutive digits, and _extract_timestamp and parse_artifact fail
\* in no other case; for a name with more than one run, or with a longer
\* run, _extract_timestamp returns the leftmost 14 consecutive digits,
\* parse_artifact returns the name, and artifact_timestamp returns the epoch
\* value of those leftmost digits when they are a date
C24_FirstRun ==
    ParsesName =>
        LET name == op.arg[2]
            first == SubSeq(name, Least(Windows(name)),
                            Least(Windows(name)) + TIMESTAMP_LEN - 1)
        IN  /\ Windows(name) = {} =>
                  (op.result = "raised" /\ op.error = "ValueError")
            /\ (Windows(name) # {} /\ op.name = "_extract_timestamp") =>
                  (op.result = "returned" /\ op.value["timestamp"] = first)
            /\ (Windows(name) # {} /\ op.name = "parse_artifact") =>
                  (op.result = "returned" /\ op.value["artifact"] = name)
            /\ (Windows(name) # {} /\ op.name = "artifact_timestamp") =>
                  IF strptime(first).ok
                  THEN /\ op.result = "returned"
                       /\ op.value["epoch"] = timestamp(strptime(first))
                  ELSE op.result = "raised" /\ op.error = "ValueError"

\* "rootfs-20250110120000-20241202202935.vhd" gives "20250110120000"
C24_Witness ==
    /\ op.name = "_extract_timestamp"
    /\ op.arg[2] = OldPrefix \o Stamp1 \o <<"-">> \o Stamp2 \o VhdExt
    /\ Cardinality(Windows(op.arg[2])) = 2
    /\ op.result = "returned"
    /\ op.value["timestamp"] = Stamp1

\* C25: parse_artifact returns None for an empty argument; for an argument
\* of exactly 14 digits it raises ValueError when home is not given and
\* otherwise returns a file of the artifacts directory whose name holds the
\* timestamp (the legacy name when there is no such file); for any other
\* argument it returns the argument unchanged when 14 consecutive digits can
\* be extracted from it and raises ValueError when not
C25_ParseArtifact ==
    op.name = "parse_artifact" =>
        LET artifact_arg == op.arg[2]
            in_directory == { f \in local_files : Contains(f, artifact_arg) }
        IN  IF artifact_arg = << >>
            THEN op.result = "None"
            ELSE IF Len(artifact_arg) = TIMESTAMP_LEN /\ all_digits(artifact_arg)
            THEN IF ~op.value["has_home"]
                 THEN op.result = "raised" /\ op.error = "ValueError"
                 ELSE /\ op.result = "returned"
                      /\ IF in_directory # {}
                         THEN op.value["artifact"] \in in_directory
                         ELSE op.value["artifact"]
                                = LegacyPrefix \o <<"-">> \o artifact_arg
                                      \o LegacyExt
            ELSE IF Windows(artifact_arg) # {}
            THEN op.result = "returned" /\ op.value["artifact"] = artifact_arg
            ELSE op.result = "raised" /\ op.error = "ValueError"

\* parse_artifact("20250110120000", home, dev=True) resolves to
\* "seismic-dev-azure-20250110120000.vhd", the only file of the directory
C25_Witness ==
    /\ op.name = "parse_artifact"
    /\ op.arg[2] = Stamp1
    /\ op.value["has_home"] /\ op.value["dev"]
    /\ op.result = "returned"
    /\ op.value["artifact"] = DevPrefix \o Stamp1 \o VhdExt
    /\ local_files = {DevPrefix \o Stamp1 \o VhdExt}

\* C26: resolving a bare timestamp with home given, when some file of the
\* artifacts directory holds it, returns one of those files: a "-dev-" file
\* when dev is set and there is one, a file without "-dev-" when dev is not
\* set and there is one; among the files left after that choice a .vhd is
\* taken before a .tar.gz and a .tar.gz before an .efi
C26_Resolve ==
    (/\ op.name = "parse_artifact"
     /\ Len(op.arg[2]) = TIMESTAMP_LEN /\ all_digits(op.arg[2])
     /\ op.value["has_home"]
     /\ \E f \in local_files : Contains(f, op.arg[2]))
        => LET found == op.value["artifact"]
               holding == { f \in local_files : Contains(f, op.arg[2]) }
               devs == { f \in holding : Contains(f, DevTag) }
               wanted == IF op.value["dev"] THEN devs ELSE holding \ devs
               left == IF wanted # {} THEN wanted ELSE holding
               Some(ext) == \E f \in left : EndsWith(f, ext)
           IN  /\ op.result = "returned"
               /\ found \in left
               /\ Some(VhdExt) => EndsWith(found, VhdExt)
               /\ (~Some(VhdExt) /\ Some(TarGzExt))
                     => EndsWith(found, TarGzExt)
               /\ (~Some(VhdExt) /\ ~Some(TarGzExt) /\ Some(EfiExt))
                     => EndsWith(found, EfiExt)

\* with dev set, the dev .tar.gz is taken although there is a .vhd that is
\* not a dev file
C26_Witness ==
    /\ op.name = "parse_artifact"
    /\ op.arg[2] = Stamp1
    /\ op.value["has_home"] /\ op.value["dev"]
    /\ local_files = { PlainPrefix \o Stamp1 \o VhdExt,
                       DevPrefix \o Stamp1 \o TarGzExt,
                       PlainPrefix \o Stamp1 \o EfiExt }
    /\ op.result = "returned"
    /\ op.value["artifact"] = DevPrefix \o Stamp1 \o TarGzExt

\* C27: wait_for_extended_operation returns only when the operation was
\* seen done and has no error; when the operation was seen done with an
\* error it raises RuntimeError, and only then; it raises TimeoutError only
\* when the operation was seen not done with more than timeout seconds
\* elapsed since the wait started
C27_WaitOutcome ==
    /\ wait.pc = "returned" => (wait.done /\ ~wait.failed)
    /\ (wait.pc \in {"returned", "raised"} /\ wait.done /\ wait.failed) =>
          (wait.pc = "raised" /\ wait.error = "RuntimeError")
    /\ wait.error = "RuntimeError" =>
          (wait.pc = "raised" /\ wait.done /\ wait.failed)
    /\ wait.error = "TimeoutError" =>
          /\ wait.pc = "raised"
          /\ ~wait.done
          /\ ~(wait.completes /\ Elapsed >= wait.done_at)
          /\ Elapsed > wait.timeout

\* an operation that completed with an error after the wait slept
C27_Witness ==
    /\ wait.pc = "raised"
    /\ wait.error = "RuntimeError"
    /\ wait.done /\ wait.failed
    /\ wait.slept_at >= 0
    /\ wait.timeout = DEFAULT_TIMEOUT

AwaitedSteps == {"create_disk", "add_nsg_rule", "create_data_disk", "create_vm"}

\* C29: when the operation awaited by a step of the deployment times out or
\* reports an error, the step raises that error and the deployment ends
\* with it; the failure is not swallowed
C29_AwaitedFailureFatal ==
    [][(pc[Orch] \in AwaitedSteps /\ faults' = faults + 1)
          => /\ pc'[Orch] = "raised"
             /\ err'[Orch].at = pc[Orch]
             /\ err'[Orch].error \in CloudErrors]_vars

\* every standard rule exists for the VM of the run
AllRulesExist ==
    \A i \in DOMAIN StandardRules : Has(rules, <<Vm, StandardRules[i].name>>)

\* the run created no firewall rule
NoRuleCreated == \A r \in created : r[1] # "rule"

\* C30: once the loop of create_standard_nsg_rules is over, add_nsg_rule was
\* called exactly once for each rule of the standard set; an add_nsg_rule
\* for a rule that exists does not raise, leaves the rules as they are and
\* the loop goes on with the next rule; no run ends in an "already exists"
\* error of add_nsg_rule
C30_RulesTolerateExisting ==
    /\ []("create_data_disk" \in Called \/ pc[Orch] = "create_data_disk"
            => (Count("add_nsg_rule") = Len(StandardRules)
                /\ rule_idx = Len(StandardRules) + 1))
    /\ []((pc[Orch] = "raised" /\ err[Orch].at = "add_nsg_rule")
            => err[Orch].error \in CloudErrors)
    /\ [][(/\ pc[Orch] = "add_nsg_rule"
            /\ Has(rules, <<Vm, StandardRules[rule_idx].name>>)
            /\ faults' = faults)
              => /\ rules' = rules
                 /\ pc'[Orch] # "raised"
                 /\ rule_idx' = rule_idx + 1
                 /\ Count("add_nsg_rule")' = Count("add_nsg_rule") + 1]_vars

\* a second run on GCP in which every rule existed: all ten were attempted,
\* none was created and the run completed
C30_Witness ==
    /\ attempt = 2
    /\ Cloud = "gcp"
    /\ pc[Orch] = "done"
    /\ ~cfg[Orch].ip_only
    /\ Count("add_nsg_rule") = Len(StandardRules)
    /\ AllRulesExist
    /\ NoRuleCreated

\* create_vm was entered and is over, having created its user-data file
AfterCreateVm ==
    /\ "create_vm" \in Called
    /\ pc[Orch] \notin {"create_user_data_file", "create_vm"}
    /\ ~(pc[Orch] = "raised" /\ err[Orch] = [at |-> "create_vm",
                                            error |-> "OSError"])

C32_TmpFilesScoped ==
    pc[Orch] \in Terminal =>
        (UserDataFile \notin tmp_files /\ MeasurementsFile \notin tmp_files)

\* the rules the run's VM has
RulesOfVm == { rules[k] : k \in { q \in DOMAIN rules : q[1] = Vm } }

\* the TCP ports that have a rule of their own
OwnPortRules ==
    ("TCP7878" :> 7878) @@ ("TCP7936" :> 7936) @@ ("TCP8545" :> 8545) @@
    ("TCP8551" :> 8551) @@ ("TCP8645" :> 8645) @@ ("TCP8745" :> 8745)

\* r is a rule of the documented set
IsStandardRule(r) ==
    \/ r = [name |-> "AllowSSH", priority |-> 100, port |-> 22,
            protocol |-> "tcp", source |-> "source_ip"]
    \/ r = [name |-> "AllowAnyHTTPInbound", priority |-> 101, port |-> 80,
            protocol |-> "tcp", source |-> "*"]
    \/ r = [name |-> "AllowAnyHTTPSInbound", priority |-> 102, port |-> 443,
            protocol |-> "tcp", source |-> "*"]
    \/ /\ r.name \in DOMAIN OwnPortRules
       /\ r.port = OwnPortRules[r.name]
       /\ r.priority \in 110..116
       /\ r.protocol = "tcp" /\ r.source = "*"
    \/ r = [name |-> "ANY18551", priority |-> 114, port |-> 18551,
            protocol |-> "all", source |-> "*"]

\* C33: every rule a VM gets is a rule of the documented set, no two rules
\* of a VM share a name or a priority, and a run whose rule loop is over
\* without a failed call has made one add_nsg_rule call per rule and left
\* the VM with the ten rules of the set
C33_StandardRuleSet ==
    /\ \A r \in RulesOfVm : IsStandardRule(r)
    /\ \A r1, r2 \in RulesOfVm :
          (r1.name = r2.name \/ r1.priority = r2.priority) => r1 = r2
    /\ (("create_data_disk" \in Called \/ pc[Orch] = "create_data_disk")
            /\ ~faulted)
          => /\ Count("add_nsg_rule") = 10
             /\ { r.name : r \in RulesOfVm } =
                   {"AllowSSH", "AllowAnyHTTPInbound", "AllowAnyHTTPSInbound",
                    "ANY18551"} \cup DOMAIN OwnPortRules

\* a first run on GCP has gone through the loop without a failure
C33_Witness ==
    /\ attempt = 1
    /\ Cloud = "gcp"
    /\ pc[Orch] = "create_data_disk"
    /\ ~faulted
    /\ Cardinality(RulesOfVm) = 10

\* ------------------------------------------------------------------------
\* Specification of main with --count: deploy_genesis_vm is called for the
\* configs of nodes 1..count, one after the other
\* ------------------------------------------------------------------------
\* largest --count
MaxCount == 3

\* configs = [DeploymentConfig.from_genesis_args(args, n)
\*            for n in range(1, args.count + 1)]: the config of node n
from_genesis_args(cloud, count, n) ==
    [count |-> count] @@ Config(cloud, n, FALSE, TRUE)

\* json.dump raises (the disk is full, the operator interrupts the tool):
\* the file stays as open(path, "w+") and the chunks written so far left it
json_dump_raises(p) ==
    /\ pc[p] \in {"json_dump", "json_dump_rest"}
    /\ faults < MaxFaults
    /\ faults' = faults + 1
    /\ faulted' = TRUE
    /\ Raises(p, "write_metadata", "OSError")
    /\ last_fault' = [at |-> "write_metadata", error |-> "OSError"]
    /\ UNCHANGED <<cfg, mem, loaded, out, calls, attempt, wait, prev_fail,
                   prev_ip, created, disk_existed, rule_idx, ip_address, returned,
                   cloudVars, fileVars>>

\* for config in configs: deploy_genesis_vm(config) -- the call for the
\* current node returned and the loop takes the next config
next_config ==
    /\ pc[Orch] = "done"
    /\ cfg[Orch].node < cfg[Orch].count
    /\ cfg' = [cfg EXCEPT ![Orch] =
                  from_genesis_args(@.cloud, @.count, @.node + 1)]
    /\ pc' = [pc EXCEPT ![Orch] = "start"]
    /\ mem' = [mem EXCEPT ![Orch] = EmptyMap]
    /\ loaded' = [loaded EXCEPT ![Orch] = EmptyMap]
    /\ out' = [out EXCEPT ![Orch] = NoOutput]
    /\ calls' = << >>
    /\ created' = {}
    /\ disk_existed' = FALSE
    /\ rule_idx' = 1
    /\ ip_address' = 0
    /\ UNCHANGED returned
    /\ prev_ip' = ip_address
    /\ file0' = file
    /\ writes' = [writes EXCEPT ![Orch] = 0]
    /\ UNCHANGED <<err, attempt, wait, faults, faulted, last_fault, prev_fail,
                   cloudVars, file, local_files, tmp_files, op>>

\* main was started with --count and no --node
InitCount ==
    /\ \E c \in Clouds, n \in 1..MaxCount :
          cfg = [p \in Procs |-> from_genesis_args(c, n, 1)]
    /\ pc = [p \in Procs |-> IF p = Orch THEN "start" ELSE "idle"]
    /\ mem = [p \in Procs |-> EmptyMap]
    /\ out = [p \in Procs |-> NoOutput]
    /\ err = [p \in Procs |-> NoError]
    /\ InitRun
    /\ groups \in {{}, {Group}}
    /\ ips \in {EmptyMap, (ip_name(1) :> 1)}
    /\ next_addr = 2
    /\ dns = [r \in {"node", "metrics"} |-> {}]
    /\ images = {}
    /\ disks \in {EmptyMap, (get_disk_name(VmName(1), Artifact) :> 0)}
    /\ rules = EmptyMap
    /\ nsgs = {}
    /\ vms = EmptyMap
    /\ loaded = [p \in Procs |-> EmptyMap]
    /\ file \in {MissingFile, FileOf("doc", FullDoc)}
    /\ file0 = file
    /\ writes = [p \in Procs |-> 0]
    /\ tmp_files = {}
    /\ local_files = {Artifact, OtherArtifact}
    /\ op = NoOp

NextCount ==
    \/ validate_args
    \/ check_dependencies
    \/ ensure_created_resource_group
    \/ get_or_create_node_ip
    \/ get_existing_public_ip
    \/ confirm
    \/ create_public_ip
    \/ update_dns_metrics
    \/ update_dns_record
    \/ maybe_build
    \/ deploy_image
    \/ disk_exists
    \/ get_disk_name_step
    \/ create_disk
    \/ upload_disk
    \/ create_nsg
    \/ create_standard_nsg_rules
    \/ add_nsg_rule
    \/ create_data_disk
    \/ create_user_data_file
    \/ create_vm
    \/ attach_data_disk
    \/ get_vm_ip
    \/ update_deploy_metadata(Orch)
    \/ write_metadata(Orch)
    \/ json_dump_chunk(Orch)
    \/ json_dump(Orch)
    \/ json_dump_raises(Orch)
    \/ next_config

SpecCount == InitCount /\ [][NextCount]_vars

\* the metadata file holds a document with an entry for the VM of node n
\* under the cloud of the run
NodeRecorded(n) ==
    /\ file.kind = "doc"
    /\ Has(file.doc, "resources")
    /\ Has(file.doc["resources"], Cloud)
    /\ Has(file.doc["resources"][Cloud], VmName(n))
    /\ file.doc["resources"][Cloud][VmName(n)]["artifact"] = Artifact

\* the loop of main goes from node k to node k + 1 only, and only when the
\* deployment of node k has returned; a deployment that raised is the last
NodesInOrder ==
    [][/\ cfg'[Orch].node # cfg[Orch].node
          => (cfg'[Orch].node = cfg[Orch].node + 1 /\ pc[Orch] = "done")
       /\ pc[Orch] = "raised" => pc'[Orch] = "raised"]_vars

\* nothing of a node after the current one exists
NoLaterNode ==
    \A n \in 1..MaxCount :
        n > cfg[Orch].node =>
            (~Has(vms, VmName(n)) /\ ~Has(ips, ip_name(n)))

\* the nodes before the current one have their VM
EarlierNodesDeployed ==
    \A n \in 1..MaxCount : n < cfg[Orch].node => Has(vms, VmName(n))

\* C34: with --count N the nodes are deployed in ascending order, one at a
\* time, no node after a failed one is attempted, the nodes before the
\* current one stay deployed and, when the deployment of the current one has
\* ended, are recorded in the metadata file
C34_SequentialNodes ==
    /\ NodesInOrder
    /\ [](NoLaterNode /\ EarlierNodesDeployed)
    /\ [](pc[Orch] \in Terminal =>
             \A n \in 1..MaxCount : n < cfg[Orch].node => NodeRecorded(n))

\* ------------------------------------------------------------------------
\* Specification of GenesisIPManager.get_or_create_node_ip called by several
\* orchestrator processes at once, for the same node or for different ones
\* ------------------------------------------------------------------------
\* node numbers of the calls
Nodes == {1, 2}

\* get_or_create_node_ip(node_number, region) is called by process p
get_or_create_node_ip_of(p) ==
    /\ pc[p] \in {"idle", "returned", "raised"}
    /\ \E n \in Nodes :
          cfg' = [cfg EXCEPT ![p] = Config(@.cloud, n, FALSE, TRUE)]
    /\ pc' = [pc EXCEPT ![p] = "get_existing_public_ip"]
    /\ err' = [err EXCEPT ![p] = NoError]
    /\ returned' = [returned EXCEPT ![p] = NoReturn]
    /\ UNCHANGED <<mem, loaded, out, calls, attempt, wait, faults, faulted,
                   last_fault, prev_fail, prev_ip, created, disk_existed,
                   rule_idx, ip_address, cloudVars, fileVars>>

\* existing_ip = get_existing_public_ip(ip_name, ip_rg);
\* if existing_ip: return (existing_ip, ip_name).  The GCP call answers None
\* for every exception
get_existing_public_ip_of(p) ==
    /\ pc[p] = "get_existing_public_ip"
    /\ LET name == ip_name(cfg[p].node)
           existing_ip == existing_public_ip(ips, name)
       IN
       \/ /\ existing_ip # 0
          /\ returned' = [returned EXCEPT ![p] =
                             [ip_address |-> existing_ip, ip_name |-> name]]
          /\ pc' = [pc EXCEPT ![p] = "returned"]
          /\ UNCHANGED <<err, U_nofault>>
       \/ /\ existing_ip = 0
          /\ pc' = [pc EXCEPT ![p] = "confirm"]
          /\ UNCHANGED <<err, returned, U_nofault>>
       \/ /\ cfg[p].cloud = "gcp" /\ faults < MaxFaults
          /\ faults' = faults + 1
          /\ faulted' = TRUE
          /\ pc' = [pc EXCEPT ![p] = "confirm"]
          /\ UNCHANGED <<err, returned, last_fault>>
    /\ UNCHANGED <<cfg, mem, loaded, out, calls, attempt, wait, prev_fail,
                   prev_ip, created, disk_existed, rule_idx, ip_address,
                   cloudVars, fileVars>>

\* confirm(f"create new IP for node {node_number} @ {ip_name}")
confirm_of(p) ==
    /\ pc[p] = "confirm"
    /\ \E answer \in {"y", "n"} :
          IF answer = "y"
          THEN pc' = [pc EXCEPT ![p] = "create_public_ip"] /\ UNCHANGED err
          ELSE Raises(p, "confirm", "ValueError")
    /\ UNCHANGED <<cfg, mem, loaded, out, runVars, cloudVars, fileVars>>

\* ip_address = create_public_ip(ip_name, ip_rg, region);
\* return (ip_address, ip_name)
create_public_ip_of(p) ==
    /\ pc[p] = "create_public_ip"
    /\ LET name == ip_name(cfg[p].node)
           res == create_result(cfg[p].cloud, Has(ips, name))
       IN
       \/ /\ res = "ok"
          /\ ips' = addresses_after_create(ips, name, next_addr)
          /\ next_addr' = IF Has(ips, name) THEN next_addr ELSE next_addr + 1
          /\ returned' = [returned EXCEPT ![p] =
                             [ip_address |-> ips'[name], ip_name |-> name]]
          /\ pc' = [pc EXCEPT ![p] = "returned"]
          /\ UNCHANGED <<err, U_nofault>>
       \/ /\ res # "ok"
          /\ Raises(p, "create_public_ip", res)
          /\ UNCHANGED <<ips, next_addr, returned, U_nofault>>
       \/ \* the insert or its wait fails; the address may have been reserved
          /\ ~Has(ips, name) /\ faults < MaxFaults
          /\ faults' = faults + 1
          /\ faulted' = TRUE
          /\ \E e \in CloudErrors, reserved \in BOOLEAN :
                /\ Raises(p, "create_public_ip", e)
                /\ last_fault' = [at |-> "create_public_ip", error |-> e]
                /\ ips' = IF reserved
                          THEN addresses_after_create(ips, name, next_addr)
                          ELSE ips
                /\ next_addr' = IF reserved THEN next_addr + 1 ELSE next_addr
          /\ UNCHANGED returned
    /\ UNCHANGED <<cfg, mem, loaded, out, calls, attempt, wait, prev_fail,
                   prev_ip, created, disk_existed, rule_idx, ip_address,
                   groups, dns, images, disks, rules, nsgs, vms, fileVars>>

\* the processes share a provider and a resource group; the address of
\* node 1 may be there from an earlier deployment
InitIp ==
    /\ \E c \in Clouds : cfg = [p \in Procs |-> Config(c, 1, FALSE, TRUE)]
    /\ pc = [p \in Procs |-> "idle"]
    /\ mem = [p \in Procs |-> EmptyMap]
    /\ out = [p \in Procs |-> NoOutput]
    /\ err = [p \in Procs |-> NoError]
    /\ InitRun
    /\ InitCloud
    /\ loaded = [p \in Procs |-> EmptyMap]
    /\ file = MissingFile
    /\ file0 = file
    /\ writes = [p \in Procs |-> 0]
    /\ tmp_files = {}
    /\ local_files = {Artifact}
    /\ op = NoOp

NextIp ==
    \E p \in Procs :
        \/ get_or_create_node_ip_of(p)
        \/ get_existing_public_ip_of(p)
        \/ confirm_of(p)
        \/ create_public_ip_of(p)

SpecIp == InitIp /\ [][NextIp]_vars

\* get_or_create_node_ip returned to p
HasReturned(p) == pc[p] = "returned"

RecordedEntry == file.doc["resources"][Cloud][Vm]

\* C36: when a genesis deployment has completed, the public_ip recorded for
\* the VM is the address get_or_create_node_ip returned, both DNS records
\* hold that address, and the VM has the address of the resource ip_name
C36_VmBoundToNodeIp ==
    (Completed /\ file.kind = "doc") =>
        /\ RecordedEntry["public_ip"] = ip_address
        /\ dns["node"] = {ip_address}
        /\ dns["metrics"] = {ip_address}
        /\ vms[Vm].ip = ips[ip_name(cfg[Orch].node)]

\* C37: after an update_dns_record with remove_old on a record that held
\* addresses, whether it returned or raised, the record holds an address
C37_RecordNeverEmpty ==
    (/\ op.name = "update_dns_record"
     /\ op.arg[2] = "remove_old"
     /\ op.value["previous"] # {})
        => dns[op.arg[1]] # {}

\* deploy_genesis_vm has raised one of its two argument errors
RejectedInvocation ==
    /\ pc[Orch] = "raised"
    /\ err[Orch].error = "ValueError"
    /\ err[Orch].at \in {"validate_args", "check_node"}

\* C38: an invocation rejected for a missing artifact or a missing node
\* number has created no resource in this run
C38_RejectedBeforeCloud ==
    RejectedInvocation => created = {}

\* ------------------------------------------------------------------------
\* Regions (cloud_config.py, config/vm_config.py): defaults and validation
\* ------------------------------------------------------------------------
AZURE_REGIONS == {"eastus", "westus3", "westeurope"}

GCP_ZONES == {"us-central1-a", "asia-northeast1-b"}

\* azure/defaults.py: DEFAULT_REGION, DEFAULT_RESOURCE_GROUP, DEFAULT_VM_SIZE
_get_azure_defaults ==
    [region |-> "eastus2", resource_group |-> "tdx-testnet",
     vm_size |-> "Standard_DC4es_v6"]

\* gcp/defaults.py: DEFAULT_ZONE, DEFAULT_PROJECT, DEFAULT_VM_TYPE
_get_gcp_defaults ==
    [region |-> "us-central1-a", resource_group |-> "testnet-477314",
     vm_size |-> "c3-standard-4"]

\* an argument that was not given
None == "None"

\* ValueError when the region is not one of the provider's
validate_region(cloud, region) ==
    IF cloud = "azure"
    THEN IF region \notin AZURE_REGIONS THEN "ValueError" ELSE "none"
    ELSE IF region \notin GCP_ZONES THEN "ValueError" ELSE "none"

get_default_region(cloud) ==
    IF cloud = "azure" THEN _get_azure_defaults.region
    ELSE _get_gcp_defaults.region

get_default_resource_group(cloud) ==
    IF cloud = "azure" THEN _get_azure_defaults.resource_group
    ELSE _get_gcp_defaults.resource_group

get_default_vm_size(cloud) ==
    IF cloud = "azure" THEN _get_azure_defaults.vm_size
    ELSE _get_gcp_defaults.vm_size

\* VmConfigs.from_args: defaults for what was not given, then the region
\* is validated
from_args(cloud, resource_group, region, vm_size) ==
    LET rg == IF resource_group = None
              THEN get_default_resource_group(cloud) ELSE resource_group
        rn == IF region = None THEN get_default_region(cloud) ELSE region
        sz == IF vm_size = None THEN get_default_vm_size(cloud) ELSE vm_size
        e  == validate_region(cloud, rn)
    IN  [error |-> e,
         config |-> [resource_group |-> rg, name |-> rg, nsg_name |-> rg,
                     cloud |-> cloud, region |-> rn, size |-> sz]]

\* the regions, groups and sizes a command line may give
RegionArgs == AZURE_REGIONS \cup GCP_ZONES \cup {"eastus2", "us-central1", None}

GroupArgs == {"rg", "tdx-testnet", None}

SizeArgs == {"Standard_DC4es_v6", "c3-standard-4", None}

\* VmConfigs.from_args(args) is called
call_from_args ==
    /\ NotCalled
    /\ \E cloud \in Clouds, resource_group \in GroupArgs,
          region \in RegionArgs, vm_size \in SizeArgs :
          LET r == from_args(cloud, resource_group, region, vm_size) IN
              op' = OpOutcome("from_args", <<cloud, region>>,
                              IF r.error = "none" THEN "returned" ELSE "raised",
                              r.error,
                              IF r.error = "none" THEN r.config
                              ELSE [resource_group |-> resource_group,
                                    size |-> vm_size])
    /\ UNCHANGED <<procVars, runVars, cloudVars, file, file0, writes,
                   local_files, tmp_files>>

\* validate_region(cloud, region) is called
call_validate_region ==
    /\ NotCalled
    /\ \E cloud \in Clouds, region \in RegionArgs \ {None} :
          LET e == validate_region(cloud, region) IN
              op' = OpOutcome("validate_region", <<cloud, region>>,
                              IF e = "none" THEN "returned" ELSE "raised",
                              e, EmptyMap)
    /\ UNCHANGED <<procVars, runVars, cloudVars, file, file0, writes,
                   local_files, tmp_files>>

InitRegion ==
    /\ cfg = [p \in Procs |-> Config("azure", 1, FALSE, TRUE)]
    /\ pc = [p \in Procs |-> "idle"]
    /\ mem = [p \in Procs |-> EmptyMap]
    /\ loaded = [p \in Procs |-> EmptyMap]
    /\ out = [p \in Procs |-> NoOutput]
    /\ err = [p \in Procs |-> NoError]
    /\ InitRun
    /\ DeployedCloud
    /\ file = FileOf("doc", EmptyMap)
    /\ file0 = file
    /\ writes = [p \in Procs |-> 0]
    /\ tmp_files = {}
    /\ local_files = {}
    /\ op = NoOp

NextRegion ==
    \/ call_from_args
    \/ call_validate_region

SpecRegion == InitRegion /\ [][NextRegion]_vars

\* C39: VmConfigs.from_args called without a region never fails the region
\* validation, on either provider
C39_DefaultRegionValid ==
    (op.name = "from_args" /\ op.arg[2] = None) => op.result = "returned"

\* the stages that build the image or work on disks, rules and the VM
MachineSteps ==
    {"maybe_build", "deploy_image", "disk_exists", "get_disk_name",
     "create_disk", "upload_disk", "create_nsg", "create_standard_nsg_rules",
     "add_nsg_rule", "create_data_disk", "create_vm", "attach_data_disk",
     "get_vm_ip"}

\* C40: a run with --ip-only never reaches a stage that builds the image or
\* works on disks, rules or the VM, creates nothing but the group and the
\* address, leaves the metadata file as it was, and when it is done both
\* DNS records hold the address of the node
C40_IpOnlyStopsAfterDns ==
    cfg[Orch].ip_only =>
        /\ Called \cap MachineSteps = {}
        /\ \A r \in created : r[1] \in {"group", "ip"}
        /\ file = file0
        /\ tmp_files = {}
        /\ pc[Orch] = "done" =>
              /\ ip_address # 0
              /\ Get(ips, ip_name(cfg[Orch].node), 0) = ip_address
              /\ dns["node"] = {ip_address}
              /\ dns["metrics"] = {ip_address}

C40_Witness ==
    /\ cfg[Orch].ip_only
    /\ pc[Orch] = "done"
    /\ Count("update_dns_record") = 2
    /\ dns["node"] = {ip_address}
    /\ dns["metrics"] = {ip_address}
    /\ ip_address # 0

====
